---------------------------- MODULE Spec2Model ----------------------------
(***************************************************************************)
(* Model of the l1j-rust server core.                                      *)
(*                                                                         *)
(*   WorldSpec    the tick engine of src/ecs/game_engine.rs: GameWorld     *)
(*                with spawn_npc, remove_npc and tick.                     *)
(*   SessionSpec  the connection tasks of src/network/session.rs: the     *)
(*                per-connection state machine, the shared registry and    *)
(*                its lock, the broadcast queues and the session cleanup.  *)
(*                                                                         *)
(*   WireSpec     one connection at the level of the bytes on its socket.  *)
(*   CallSpec     calls of the pure functions.                             *)
(*   LoneSpec     the tick engine with one entity whose public fields the  *)
(*                driver writes.                                           *)
(*   CatapultSpec one catapult of src/ecs/siege_units.rs.                  *)
(*   GuardSpec    one castle guard of src/ecs/siege_units.rs.              *)
(*                                                                         *)
(* The specifications share one Init; each leaves the others' variables    *)
(* untouched.                                                              *)
(***************************************************************************)
EXTENDS Integers, Sequences, FiniteSets, TLC

VARIABLES
    \* ---- GameWorld (game_engine.rs) ----
    npcs,             \* GameWorld.npcs: object id -> NpcEntity
    grid,             \* GameWorld.grid: the spatial index, a set of memberships
    player_positions, \* GameWorld.player_positions: player id -> Position
    next_object_id,   \* GameWorld.next_object_id
    tick_count,       \* GameWorld.tick_count
    last_call,        \* the last call: its name, arguments and result
    \* ---- connections (session.rs) ----
    sessions,         \* connection -> its Session fields and its task's position
    queues,           \* connection -> the payloads waiting in its packet_rx
    world,            \* SharedWorld: object id -> OnlinePlayer
    lock,             \* the holder of the SharedWorld mutex, or None
    accounts,         \* persistence: account name -> account row
    characters,       \* persistence: character name -> character row
    db,               \* whether the server has a database pool (Session.db)
    io_in_lock,       \* a task has sent or called persistence holding the mutex
    client_frames,    \* frames the clients have yet to send
    \* ---- one connection on the wire (session.rs 93-214) ----
    wire,             \* its socket, cipher, packet_rx and read_packet future
    \* ---- siege units (siege_units.rs) ----
    catapult,         \* a CatapultState
    guard,            \* a GuardState
    elapsed           \* history: tick calls since the last shot and attack

wvars == <<npcs, grid, player_positions, next_object_id, tick_count, last_call>>

svars == <<sessions, queues, world, lock, accounts, characters, db, io_in_lock,
           client_frames>>

\* The siege units.
uvars == <<catapult, guard, elapsed>>

\* One connection seen at the level of bytes on its socket, and the siege
\* units.
xvars == <<wire, uvars>>

vars == <<wvars, svars, xvars>>

None == "None"

(***************************************************************************)
(* Bounds of the model.                                                    *)
(***************************************************************************)
MaxNpcs == 2          \* spawn_npc succeeds at most this often
MaxTicks == 2         \* tick is called at most this often

(***************************************************************************)
(* Positions and directions.                                               *)
(***************************************************************************)
Abs(n) == IF n < 0 THEN -n ELSE n

Max2(a, b) == IF a >= b THEN a ELSE b

\* Position::new(x, y, map_id): heading starts at 0.
NewPosition(x, y, map_id) == [x |-> x, y |-> y, map_id |-> map_id, heading |-> 0]

\* components::position::heading_delta: the direction table read from
\* heading to (dx, dy); any other heading gives no displacement.
heading_delta(h) ==
    CASE h = 0 -> <<0, 1>>
      [] h = 1 -> <<-1, 1>>
      [] h = 2 -> <<-1, 0>>
      [] h = 3 -> <<-1, -1>>
      [] h = 4 -> <<0, -1>>
      [] h = 5 -> <<1, -1>>
      [] h = 6 -> <<1, 0>>
      [] h = 7 -> <<1, 1>>
      [] OTHER -> <<0, 0>>

\* Position::tile_distance: Chebyshev distance.
tile_distance(p, q) == Max2(Abs(p.x - q.x), Abs(p.y - q.y))

\* Mutant of direction_from_delta: only unit steps are recognised.
direction_from_unit_delta(dx, dy) ==
    IF dx = 0 /\ dy = 1 THEN 0
    ELSE IF dx = -1 /\ dy = 1 THEN 1
    ELSE IF dx = -1 /\ dy = 0 THEN 2
    ELSE IF dx = -1 /\ dy = -1 THEN 3
    ELSE IF dx = 0 /\ dy = -1 THEN 4
    ELSE IF dx = 1 /\ dy = -1 THEN 5
    ELSE IF dx = 1 /\ dy = 0 THEN 6
    ELSE IF dx = 1 /\ dy = 1 THEN 7
    ELSE 0

\* game_engine.rs direction_from_delta.
direction_from_delta(dx, dy) ==
    IF dx = 0 /\ dy > 0 THEN 0
    ELSE IF dx < 0 /\ dy > 0 THEN 1
    ELSE IF dx < 0 /\ dy = 0 THEN 2
    ELSE IF dx < 0 /\ dy < 0 THEN 3
    ELSE IF dx = 0 /\ dy < 0 THEN 4
    ELSE IF dx > 0 /\ dy < 0 THEN 5
    ELSE IF dx > 0 /\ dy = 0 THEN 6
    ELSE IF dx > 0 /\ dy > 0 THEN 7
    ELSE 0

(***************************************************************************)
(* WorldGrid: the spatial index, a set of (id, map, x, y) memberships.     *)
(***************************************************************************)
Cell(id, map_id, x, y) == [id |-> id, map_id |-> map_id, x |-> x, y |-> y]

grid_add(g, id, map_id, x, y) == g \cup {Cell(id, map_id, x, y)}

grid_remove(g, id, map_id, x, y) == g \ {Cell(id, map_id, x, y)}

grid_move_object(g, id, map_id, old_x, old_y, new_x, new_y) ==
    grid_add(grid_remove(g, id, map_id, old_x, old_y), id, map_id, new_x, new_y)

grid_total_objects(g) == Cardinality(g)

(***************************************************************************)
(* Templates and entities.                                                 *)
(***************************************************************************)
\* The template table handed to GameWorld::new: a roaming monster (the
\* tests' 45000 "L1Monster") and a guard-like kind.
npc_templates == [t \in {45000, 45001} |->
                    [impl_type |-> IF t = 45000 THEN "L1Monster" ELSE "L1Guard",
                     hp |-> 100, mp |-> 50]]

\* Template ids a caller may pass to spawn_npc; 99999 is in no table.
TemplateArgs == {45000, 45001, 99999}

\* impl_type.contains("Monster")
ContainsMonster(impl_type) == impl_type \in {"L1Monster"}

\* Where the world-population loader spawns: (x, y), all on map 4.
SpawnPoints == {<<3, 3>>, <<0, 3>>}

SpawnMap == 4

\* The observer (player) id and the positions the driver reports for it.
ObserverIds == {99999}

ObserverPoints == {<<2, 4>>}

\* The range the driver passes to tick.
SleepRanges == {2}

\* GameWorld::new: next_object_id starts at 0x10000000.
BaseObjectId == 268435456

\* Movement::new(): no cooldown at first; the configured move delay.
MoveDelayTicks == 2

\* Movement::tick: decrement the cooldown if positive.
MovementTick(cooldown) == IF cooldown > 0 THEN cooldown - 1 ELSE 0

\* Movement::can_move
can_move(npc) == npc.cooldown_ticks = 0

\* The NpcEntity spawn_npc builds (Health, Movement::new(), AiState::new(x, y)).
NewNpcEntity(id, template_id, x, y, map_id) ==
    [id |-> id,
     pos |-> NewPosition(x, y, map_id),
     cur_hp |-> npc_templates[template_id].hp,
     cooldown_ticks |-> 0,
     move_delay_ticks |-> MoveDelayTicks,
     target_id |-> 0,
     random_walk_distance |-> 0,
     random_walk_direction |-> 0,
     home_x |-> x,
     home_y |-> y,
     players_nearby |-> FALSE,
     active |-> FALSE,
     template_id |-> template_id,
     alive |-> TRUE]

\* GameWorld::any_player_nearby
any_player_nearby(pp, pos, range) ==
    \E p \in DOMAIN pp : tile_distance(pos, pp[p]) <= range

(***************************************************************************)
(* tick: one entity's pass.  r holds the three random draws the pass may   *)
(* make: distance in 1..5, direction in 0..7, home in 0..2.                *)
(***************************************************************************)
Rolls == [distance : 1..5, direction : 0..7, home : 0..2]

\* A random walk that draws a new direction for every move.
RandomWalkChoiceRedraws(npc, r) ==
    IF npc.random_walk_distance = 0
    THEN [npc EXCEPT !.random_walk_distance = r.distance,
                     !.random_walk_direction = r.direction]
    ELSE [npc EXCEPT !.random_walk_distance = @ - 1,
                     !.random_walk_direction = r.direction]

\* Lines 192-206: pick the random-walk distance and direction.
RandomWalkChoice(npc, r) ==
    IF npc.random_walk_distance = 0
    THEN LET dx == npc.home_x - npc.pos.x
             dy == npc.home_y - npc.pos.y
             toward_home == /\ npc.home_x # 0
                            /\ npc.home_y # 0
                            /\ r.home = 0
                            /\ (dx # 0 \/ dy # 0)
         IN [npc EXCEPT !.random_walk_distance = r.distance,
                        !.random_walk_direction =
                            IF toward_home THEN direction_from_delta(dx, dy)
                                           ELSE r.direction]
    ELSE [npc EXCEPT !.random_walk_distance = @ - 1]

\* Mutant of ExecuteMove: the move forgets to store the heading.
ExecuteMoveKeepHeading(npc) ==
    LET d == heading_delta(npc.random_walk_direction)
    IN [npc EXCEPT !.pos = [@ EXCEPT !.x = @ + d[1], !.y = @ + d[2]],
                   !.cooldown_ticks = npc.move_delay_ticks]

\* An ExecuteMove that does not restart the cooldown.
ExecuteMoveKeepCooldown(npc) ==
    LET heading == npc.random_walk_direction
        d == heading_delta(heading)
    IN [npc EXCEPT !.pos = [@ EXCEPT !.x = @ + d[1], !.y = @ + d[2],
                                     !.heading = heading]]

\* Lines 208-219: execute the move in the entity record.
ExecuteMove(npc) ==
    LET heading == npc.random_walk_direction
        d == heading_delta(heading)
    IN [npc EXCEPT !.pos = [@ EXCEPT !.x = @ + d[1], !.y = @ + d[2],
                                     !.heading = heading],
                   !.cooldown_ticks = npc.move_delay_ticks]

\* Mutant of TickGridUpdate: insert at the new cell without removing the old.
TickGridInsertOnly(g, npc_id, old_pos, new_x, new_y) ==
    grid_add(g, npc_id, old_pos.map_id, new_x, new_y)

\* Lines 221-229: the grid update of a move.
TickGridUpdate(g, npc_id, old_pos, new_x, new_y) ==
    grid_move_object(g, npc_id, old_pos.map_id, old_pos.x, old_pos.y, new_x, new_y)

\* Mutant of SkipUnobserved: the cooldown keeps running while dormant.
SkipUnobservedDrift(npc) ==
    [npc EXCEPT !.players_nearby = FALSE, !.cooldown_ticks = MovementTick(@)]

\* Lines 159-165: an entity with no player nearby is skipped.
SkipUnobserved(npc) == [npc EXCEPT !.players_nearby = FALSE]

\* A pass that takes an entity whose template is missing for a monster.
TickNpcMissingTemplateRoams(npc, pp, range, r) ==
    IF ~npc.alive
    THEN [npc |-> npc, moved |-> FALSE]
    ELSE IF ~any_player_nearby(pp, npc.pos, range)
    THEN [npc |-> SkipUnobserved(npc), moved |-> FALSE]
    ELSE LET is_monster == IF npc.template_id \in DOMAIN npc_templates
                           THEN ContainsMonster(npc_templates[npc.template_id].impl_type)
                           ELSE TRUE
             n1 == [npc EXCEPT !.players_nearby = TRUE,
                               !.active = TRUE,
                               !.cooldown_ticks = MovementTick(@)]
         IN IF ~can_move(n1)
            THEN [npc |-> n1, moved |-> FALSE]
            ELSE IF n1.target_id = 0 /\ is_monster
            THEN LET n2 == ExecuteMove(RandomWalkChoice(n1, r))
                 IN [npc |-> n2, moved |-> TRUE]
            ELSE [npc |-> n1, moved |-> FALSE]

\* Lines 145-236: the pass over one entity; the result is the entity after
\* the pass and the movement it recorded, if any.
TickNpc(npc, pp, range, r) ==
    IF ~npc.alive
    THEN [npc |-> npc, moved |-> FALSE]
    ELSE IF ~any_player_nearby(pp, npc.pos, range)
    THEN [npc |-> SkipUnobserved(npc), moved |-> FALSE]
    ELSE LET is_monster == IF npc.template_id \in DOMAIN npc_templates
                           THEN ContainsMonster(npc_templates[npc.template_id].impl_type)
                           ELSE FALSE
             n1 == [npc EXCEPT !.players_nearby = TRUE,
                               !.active = TRUE,
                               !.cooldown_ticks = MovementTick(@)]
         IN IF ~can_move(n1)
            THEN [npc |-> n1, moved |-> FALSE]
            ELSE IF n1.target_id = 0 /\ is_monster
            THEN LET n2 == ExecuteMove(RandomWalkChoice(n1, r))
                 IN [npc |-> n2, moved |-> TRUE]
            ELSE [npc |-> n1, moved |-> FALSE]

\* The NpcMovement pushed for a moved entity.
NpcMovement(old, new) == [npc_id |-> old.id, old_pos |-> old.pos, new_pos |-> new.pos]

\* Every result of a pass over the entities in ids: the entity set after
\* the pass, the grid and the batch.
RECURSIVE TickPass(_, _, _, _)
TickPass(ids, w, pp, range) ==
    IF ids = {} THEN {w}
    ELSE LET id == CHOOSE i \in ids : TRUE
             outs == {TickNpc(w.npcs[id], pp, range, r) : r \in Rolls}
         IN UNION {
              TickPass(ids \ {id},
                       [npcs |-> [w.npcs EXCEPT ![id] = o.npc],
                        grid |-> IF o.moved
                                 THEN TickGridUpdate(w.grid, id, w.npcs[id].pos,
                                                     o.npc.pos.x, o.npc.pos.y)
                                 ELSE w.grid,
                        movements |-> IF o.moved
                                      THEN w.movements \cup {NpcMovement(w.npcs[id], o.npc)}
                                      ELSE w.movements],
                       pp, range) : o \in outs }

(***************************************************************************)
(* GameWorld operations.                                                   *)
(***************************************************************************)
WorldInit ==
    /\ npcs = << >>
    /\ grid = {}
    /\ player_positions = << >>
    /\ next_object_id = BaseObjectId
    /\ tick_count = 0
    /\ last_call = [op |-> "new"]

\* Mutant of SpawnMiss: the id is allocated before the template lookup.
SpawnMissAllocates(template_id, x, y, map_id) ==
    /\ template_id \notin DOMAIN npc_templates
    /\ next_object_id - BaseObjectId < MaxNpcs
    /\ next_object_id' = next_object_id + 1
    /\ last_call' = [op |-> "spawn_npc", template_id |-> template_id, ret |-> None]
    /\ UNCHANGED <<npcs, grid, player_positions, tick_count>>
    /\ UNCHANGED <<svars, xvars>>

\* spawn_npc of an unknown template: the lookup's `?` returns None.
SpawnMiss(template_id, x, y, map_id) ==
    /\ template_id \notin DOMAIN npc_templates
    /\ last_call' = [op |-> "spawn_npc", template_id |-> template_id, ret |-> None]
    /\ UNCHANGED <<npcs, grid, player_positions, next_object_id, tick_count>>
    /\ UNCHANGED <<svars, xvars>>

\* spawn_npc of a known template.
SpawnHit(template_id, x, y, map_id) ==
    /\ template_id \in DOMAIN npc_templates
    /\ next_object_id - BaseObjectId < MaxNpcs
    /\ LET id == next_object_id
       IN /\ next_object_id' = next_object_id + 1
          /\ grid' = grid_add(grid, id, map_id, x, y)
          /\ npcs' = [i \in DOMAIN npcs \cup {id} |->
                        IF i = id THEN NewNpcEntity(id, template_id, x, y, map_id)
                                  ELSE npcs[i]]
          /\ last_call' = [op |-> "spawn_npc", template_id |-> template_id, ret |-> id]
    /\ UNCHANGED <<player_positions, tick_count>>
    /\ UNCHANGED <<svars, xvars>>

spawn_npc(template_id, x, y, map_id) ==
    \/ SpawnMiss(template_id, x, y, map_id)
    \/ SpawnHit(template_id, x, y, map_id)

\* A remove_npc that hands the id of the removed entity back to the counter.
remove_npc_recycling(id) ==
    /\ IF id \in DOMAIN npcs
       THEN /\ npcs' = [i \in DOMAIN npcs \ {id} |-> npcs[i]]
            /\ grid' = grid_remove(grid, id, npcs[id].pos.map_id, npcs[id].pos.x, npcs[id].pos.y)
            /\ next_object_id' = id
       ELSE UNCHANGED <<npcs, grid, next_object_id>>
    /\ last_call' = [op |-> "remove_npc", id |-> id]
    /\ UNCHANGED <<player_positions, tick_count>>
    /\ UNCHANGED <<svars, xvars>>

\* A remove_npc that clears the index at the cell the entity was spawned at.
remove_npc_spawn_cell(id) ==
    /\ IF id \in DOMAIN npcs
       THEN /\ npcs' = [i \in DOMAIN npcs \ {id} |-> npcs[i]]
            /\ grid' = grid_remove(grid, id, npcs[id].pos.map_id, npcs[id].home_x, npcs[id].home_y)
       ELSE UNCHANGED <<npcs, grid>>
    /\ last_call' = [op |-> "remove_npc", id |-> id]
    /\ UNCHANGED <<player_positions, next_object_id, tick_count>>
    /\ UNCHANGED <<svars, xvars>>

remove_npc(id) ==
    /\ IF id \in DOMAIN npcs
       THEN /\ npcs' = [i \in DOMAIN npcs \ {id} |-> npcs[i]]
            /\ grid' = grid_remove(grid, id, npcs[id].pos.map_id, npcs[id].pos.x, npcs[id].pos.y)
       ELSE UNCHANGED <<npcs, grid>>
    /\ last_call' = [op |-> "remove_npc", id |-> id]
    /\ UNCHANGED <<player_positions, next_object_id, tick_count>>
    /\ UNCHANGED <<svars, xvars>>

\* A tick that counts only the passes that moved something.
tick_counting_moves(ai_sleep_range) ==
    /\ tick_count < MaxTicks
    /\ \E w \in TickPass(DOMAIN npcs,
                         [npcs |-> npcs, grid |-> grid, movements |-> {}],
                         player_positions, ai_sleep_range) :
          /\ npcs' = w.npcs
          /\ grid' = w.grid
          /\ tick_count' = IF w.movements = {} THEN tick_count ELSE tick_count + 1
          /\ last_call' = [op |-> "tick", range |-> ai_sleep_range, ret |-> w.movements]
    /\ UNCHANGED <<player_positions, next_object_id>>
    /\ UNCHANGED <<svars, xvars>>

\* GameWorld::tick, called while fewer than max_ticks ticks have passed.
tick_within(ai_sleep_range, max_ticks) ==
    /\ tick_count < max_ticks
    /\ tick_count' = tick_count + 1
    /\ \E w \in TickPass(DOMAIN npcs,
                         [npcs |-> npcs, grid |-> grid, movements |-> {}],
                         player_positions, ai_sleep_range) :
          /\ npcs' = w.npcs
          /\ grid' = w.grid
          /\ last_call' = [op |-> "tick", range |-> ai_sleep_range, ret |-> w.movements]
    /\ UNCHANGED <<player_positions, next_object_id>>
    /\ UNCHANGED <<svars, xvars>>

tick(ai_sleep_range) == tick_within(ai_sleep_range, MaxTicks)

\* The driver reports an observer's position (player_positions.insert).
SetObserver(p, xy) ==
    /\ player_positions' = [q \in DOMAIN player_positions \cup {p} |->
                              IF q = p THEN NewPosition(xy[1], xy[2], SpawnMap)
                                       ELSE player_positions[q]]
    /\ UNCHANGED <<npcs, grid, next_object_id, tick_count, last_call>>
    /\ UNCHANGED <<svars, xvars>>

\* The driver drops an observer (player_positions.remove).
DropObserver(p) ==
    /\ p \in DOMAIN player_positions
    /\ player_positions' = [q \in DOMAIN player_positions \ {p} |-> player_positions[q]]
    /\ UNCHANGED <<npcs, grid, next_object_id, tick_count, last_call>>
    /\ UNCHANGED <<svars, xvars>>

\* The driver's writes to an entity's public fields: the alive flag, the
\* AI target and the template id (TemplateArgs holds an id that is in no
\* table).
set_alive(id, alive) ==
    /\ id \in DOMAIN npcs
    /\ npcs' = [npcs EXCEPT ![id].alive = alive]
    /\ last_call' = [op |-> "write", id |-> id]
    /\ UNCHANGED <<grid, player_positions, next_object_id, tick_count>>
    /\ UNCHANGED <<svars, xvars>>

set_target_id(id, target_id) ==
    /\ id \in DOMAIN npcs
    /\ npcs' = [npcs EXCEPT ![id].target_id = target_id]
    /\ last_call' = [op |-> "write", id |-> id]
    /\ UNCHANGED <<grid, player_positions, next_object_id, tick_count>>
    /\ UNCHANGED <<svars, xvars>>

set_template_id(id, template_id) ==
    /\ id \in DOMAIN npcs
    /\ npcs' = [npcs EXCEPT ![id].template_id = template_id]
    /\ last_call' = [op |-> "write", id |-> id]
    /\ UNCHANGED <<grid, player_positions, next_object_id, tick_count>>
    /\ UNCHANGED <<svars, xvars>>

WorldNext ==
    \/ \E t \in TemplateArgs, xy \in SpawnPoints : spawn_npc(t, xy[1], xy[2], SpawnMap)
    \/ \E id \in DOMAIN npcs \cup {BaseObjectId + MaxNpcs} : remove_npc(id)
    \/ \E range \in SleepRanges : tick(range)
    \/ \E p \in ObserverIds, xy \in ObserverPoints : SetObserver(p, xy)
    \/ \E p \in ObserverIds : DropObserver(p)

(***************************************************************************)
(* Connections (session.rs).                                               *)
(***************************************************************************)
MaxFrames == 7        \* frames the clients send, over all connections

\* The connection tasks.
Conns == {"c1", "c2"}

\* SessionState (lines 21-26).
Connected == "Connected"

VersionVerified == "VersionVerified"

Authenticated == "Authenticated"

InGame == "InGame"

\* protocol::opcodes::client, by name; C_LOGINPACKET is opcode 119 and
\* C_OTHER any opcode no handler names.
Opcodes == {"C_CLIENTVERSION", "C_BEANFUNLOGIN", "C_LOGINPACKET",
            "C_LOGINTOSERVER", "C_NEWCHAR", "C_DELETECHAR", "C_MOVECHAR",
            "C_CHANGEHEADING", "C_CHAT", "C_ATTACK", "C_USESKILL",
            "C_USEITEM", "C_KEEPALIVE", "C_QUITGAME", "C_CHANGECHAR",
            "C_RESTARTMENU", "C_RESTART", "C_OTHER"}

\* What the persistence collaborator holds.
Accounts == {"a1", "a2", "ab"}

Passwords == {"p", "q"}

CharNames == {"k1", "k2", "k3"}

\* A decoded client frame: the opcode and the fields its parser reads.
Frame(op, account, password, login, name, valid, heading) ==
    [op |-> op, account |-> account, password |-> password, login |-> login,
     name |-> name, valid |-> valid, heading |-> heading]

PlainFrame(op) == Frame(op, None, None, FALSE, None, TRUE, 0)

\* The frames a client may send.  Moves go east (6), turns face west (2).
Frames ==
    {PlainFrame(op) : op \in Opcodes \ {"C_BEANFUNLOGIN", "C_LOGINPACKET",
                                        "C_LOGINTOSERVER", "C_NEWCHAR",
                                        "C_MOVECHAR", "C_CHANGEHEADING"}}
    \cup {Frame(op, a, p, TRUE, None, TRUE, 0) :
            op \in {"C_BEANFUNLOGIN", "C_LOGINPACKET"}, a \in Accounts,
            p \in Passwords}
    \cup {Frame(op, "a1", "p", FALSE, None, TRUE, 0) :
            op \in {"C_BEANFUNLOGIN", "C_LOGINPACKET"}}
    \cup {Frame("C_LOGINTOSERVER", None, None, FALSE, n, TRUE, 0) : n \in CharNames}
    \cup {Frame("C_NEWCHAR", None, None, FALSE, n, TRUE, 0) : n \in CharNames}
    \cup {Frame("C_NEWCHAR", None, None, FALSE, "k3", FALSE, 0)}
    \cup {Frame("C_MOVECHAR", None, None, FALSE, None, TRUE, 6),
          Frame("C_CHANGEHEADING", None, None, FALSE, None, TRUE, 2)}

\* Session::new (lines 71-89) and the task's position in handle_session.
NewSession ==
    [pc |-> "handshake",
     state |-> Connected,
     cipher |-> FALSE,
     account_name |-> None,
     char_name |-> None,
     char_x |-> 0,
     char_y |-> 0,
     char_map |-> 0,
     char_heading |-> 0,
     char_objid |-> 0,
     auth |-> [account |-> None, password |-> None, row |-> [exists |-> FALSE]],
                                 \* handle_version_verified: the login being checked
     nearby_packets |-> {},      \* handle_authenticated: packets collected under the lock
     cleaned |-> FALSE,          \* cleanup_session has run to its end
     bad_header |-> FALSE,       \* the loop ended on an undecodable length header
     login_result |-> None]      \* the reason code of the last login result sent

\* The task has ended: after cleanup ("ended") or by an error that `?`
\* returned from handle_session ("returned").
Terminated(c) == sessions[c].pc \in {"ended", "returned"}

(***************************************************************************)
(* SharedWorld: the registry of in-world players and its operations.       *)
(***************************************************************************)
\* The configured visibility range of get_nearby_players.
VisRange == 1

OnlinePlayer(object_id, name, x, y, map_id, heading, conn) ==
    [object_id |-> object_id, name |-> name, x |-> x, y |-> y,
     map_id |-> map_id, heading |-> heading, packet_tx |-> conn]

get_nearby_players(w, map_id, x, y, exclude_id) ==
    {id \in DOMAIN w :
        /\ id # exclude_id
        /\ w[id].map_id = map_id
        /\ Max2(Abs(w[id].x - x), Abs(w[id].y - y)) <= VisRange}

add_player(w, me) ==
    [id \in DOMAIN w \cup {me.object_id} |-> IF id = me.object_id THEN me ELSE w[id]]

remove_player(w, id) == [i \in DOMAIN w \ {id} |-> w[i]]

update_position(w, id, x, y, heading) ==
    IF id \in DOMAIN w
    THEN [w EXCEPT ![id] = [@ EXCEPT !.x = x, !.y = y, !.heading = heading]]
    ELSE w

\* n copies of payload
RECURSIVE Copies(_, _)
Copies(payload, n) == IF n = 0 THEN << >> ELSE <<payload>> \o Copies(payload, n - 1)

\* broadcast_to_nearby: one packet_tx.send per nearby occupant; a send to a
\* connection whose task has ended (receiver dropped) fails and is ignored.
broadcast_to_nearby(q, w, map_id, x, y, exclude_id, payload) ==
    LET near == get_nearby_players(w, map_id, x, y, exclude_id)
    IN [c \in Conns |->
          IF Terminated(c) THEN q[c]
          ELSE q[c] \o Copies(payload, Cardinality({id \in near : w[id].packet_tx = c}))]

\* A broadcast payload: its kind, the connection that broadcast it and the
\* object id it is about (the exclude_id of the broadcast).
Payload(kind, c, object_id) == [kind |-> kind, from |-> c, object_id |-> object_id]

(***************************************************************************)
(* Persistence collaborator.                                               *)
(***************************************************************************)
NoRow == [exists |-> FALSE]

AccountRow(password, banned, online) ==
    [exists |-> TRUE, password |-> password, banned |-> banned, online |-> online]

CharacterRow(account, objid, x, y, map_id, heading) ==
    [exists |-> TRUE, account |-> account, objid |-> objid, x |-> x, y |-> y,
     map_id |-> map_id, heading |-> heading]

\* db::account::validate_password
validate_password(given, stored) == given = stored

\* db::character::load_character(pool, name, account)
load_character(name, account) ==
    IF characters[name].exists /\ characters[name].account = account
    THEN characters[name] ELSE NoRow

\* What SystemTime::now() gives, in milliseconds since the epoch, when
\* handle_create_char runs: high * 2^31 + low31.  One time whose low 31
\* bits are small, one whose low 31 bits are 0x10000000.
ClockMillis == {[high |-> 833, low31 |-> 3],
                [high |-> 833, low31 |-> BaseObjectId]}

\* The object id handle_create_char draws: (millis & 0x7FFFFFFF) as i32.
NewObjId(millis) == millis.low31

\* Where a created character starts.
StartX == 12

StartY == 5

SessionInit ==
    /\ sessions = [c \in Conns |-> NewSession]
    /\ queues = [c \in Conns |-> << >>]
    /\ world = << >>
    /\ lock = None
    /\ accounts = [a \in Accounts |->
                     CASE a = "a1" -> AccountRow("p", 0, 0)
                       [] a = "ab" -> AccountRow("p", 1, 0)
                       [] OTHER -> NoRow]
    /\ characters = [n \in CharNames |->
                     CASE n = "k1" -> CharacterRow("a1", 1, 10, 5, 4, 0)
                       [] n = "k2" -> CharacterRow("a1", 2, 11, 5, 4, 0)
                       [] OTHER -> NoRow]
    /\ db \in BOOLEAN
    /\ io_in_lock = FALSE
    /\ client_frames = MaxFrames

(***************************************************************************)
(* Steps of a connection task.  A socket send or a persistence call made   *)
(* by connection c is recorded by IO(c).                                   *)
(***************************************************************************)
IO(c) == io_in_lock' = (io_in_lock \/ lock = c)

NoIO == UNCHANGED io_in_lock

SetSession(c, s) == sessions' = [sessions EXCEPT ![c] = s]

\* cleanup_session line 604: whether the task deregisters.
CleanupEntry(s) ==
    IF s.state = InGame /\ s.char_objid # 0 THEN "cl_lock" ELSE "cl_offline"

\* `break` out of the packet loop: cleanup_session is entered.
Break(s) == [s EXCEPT !.pc = CleanupEntry(s)]

\* `?` on an Err: handle_session returns, the task ends and drops packet_rx.
ReturnErr(s) == [s EXCEPT !.pc = "returned"]

\* Back to the select! at the top of the loop.
Continue(s) == [s EXCEPT !.pc = "loop"]

\* A frame no arm handles, with the state reset (a dispatcher that drops the
\* session back to Connected on an unexpected opcode).
IgnoreFrameResets(s) == [Continue(s) EXCEPT !.state = Connected]

\* A frame the handler of the current state has no arm for, or an arm that
\* only logs: the handler returns Ok(()) and the loop reads on.
IgnoreFrame(s) == Continue(s)

\* C_CHANGECHAR falling back past the login.
ChangeCharToVersionVerified(s) == [s EXCEPT !.state = VersionVerified]

\* C_CHANGECHAR forgetting the account on the way back to the list.
ChangeCharStateDropsAccount(s) ==
    [s EXCEPT !.state = Authenticated, !.account_name = None]

\* C_CHANGECHAR, line 545: session.state = SessionState::Authenticated.
ChangeCharState(s) == [s EXCEPT !.state = Authenticated]

\* q without the queue of a connection whose task has ended (s is its
\* session after the step): packet_rx is dropped with the task.
DropIfEnded(q, c, s) ==
    IF s.pc \in {"ended", "returned"} THEN [q EXCEPT ![c] = << >>] ELSE q

\* A step of c that ends with session s and enqueues nothing.
Finish(c, s) ==
    /\ SetSession(c, s)
    /\ queues' = DropIfEnded(queues, c, s)

\* send_handshake and Cipher::new (lines 167-170).
SendHandshake(c) ==
    LET s == sessions[c]
    IN /\ s.pc = "handshake"
       /\ \E sent \in BOOLEAN :
            Finish(c, IF sent THEN [s EXCEPT !.pc = "loop", !.cipher = TRUE]
                              ELSE ReturnErr(s))
       /\ IO(c)
       /\ UNCHANGED <<world, lock, accounts, characters, db>>
       /\ UNCHANGED <<client_frames, wvars, xvars>>

\* read_packet fails (socket closed, or decode_length gave None): break.
ReadError(c) ==
    LET s == sessions[c]
    IN /\ s.pc = "loop"
       /\ SetSession(c, Break(s))
       /\ IO(c)
       /\ UNCHANGED <<queues, world, lock, accounts, characters, db>>
       /\ UNCHANGED <<client_frames, wvars, xvars>>

\* The two-byte length headers a client may send.
Headers == {<<0, 0>>, <<1, 0>>, <<2, 0>>, <<6, 0>>}

\* codec::decode_length(lo, hi): the little-endian frame length, header
\* included, gives the payload length; a length that leaves a negative
\* payload length gives None (the empty set), Some(len) is {len}.
decode_length(lo, hi) ==
    LET total == lo + 256 * hi
    IN IF total < 2 THEN {} ELSE {total - 2}

\* read_packet on a header decode_length rejects (lines 117-120): bail!, and
\* the loop breaks (lines 185-188).  No payload byte is read.
ReadBadHeader(c) ==
    LET s == sessions[c]
    IN /\ s.pc = "loop"
       /\ client_frames > 0
       /\ client_frames' = client_frames - 1
       /\ \E h \in Headers : decode_length(h[1], h[2]) = {}
       /\ SetSession(c, [Break(s) EXCEPT !.bad_header = TRUE])
       /\ IO(c)
       /\ UNCHANGED <<queues, world, lock, accounts, characters, db>>
       /\ UNCHANGED <<wvars, xvars>>

\* The select! arm for packet_rx.recv(): forward one broadcast (lines 207-212).
ForwardBroadcast(c) ==
    LET s == sessions[c]
    IN /\ s.pc = "loop"
       /\ queues[c] # << >>
       /\ queues' = [queues EXCEPT ![c] = Tail(@)]
       /\ \E sent \in BOOLEAN :
            SetSession(c, IF sent THEN s ELSE Break(s))
       /\ IO(c)
       /\ UNCHANGED <<world, lock, accounts, characters, db>>
       /\ UNCHANGED <<client_frames, wvars, xvars>>

\* handle_connected (lines 227-244).
handle_connected(c, f) ==
    LET s == sessions[c]
    IN /\ s.pc = "loop"
       /\ client_frames > 0
       /\ client_frames' = client_frames - 1
       /\ s.state = Connected
       /\ IF f.op = "C_CLIENTVERSION"
          THEN /\ \E sent \in BOOLEAN :
                    Finish(c, IF sent THEN [s EXCEPT !.state = VersionVerified]
                                      ELSE ReturnErr(s))
               /\ IO(c)
          ELSE /\ Finish(c, IgnoreFrame(s))
               /\ NoIO
       /\ UNCHANGED <<world, lock, accounts, characters, db>>
       /\ UNCHANGED <<wvars, xvars>>

\* The outcomes of the calls a handler awaits: whether each persistence
\* call and each send succeeds.  At most one of them fails per frame.
Outcomes ==
    {o \in [load : BOOLEAN, write : BOOLEAN, sent : BOOLEAN, list : BOOLEAN] :
        Cardinality({k \in DOMAIN o : ~o[k]}) <= 1}

\* A failure reply: the handler returns Ok unless the send itself fails.
Reply(s, sent) == IF sent THEN Continue(s) ELSE ReturnErr(s)

\* build_login_result(code) sent as a failure reply, then return Ok(()).
LoginReply(s, code, sent) ==
    IF sent THEN [Continue(s) EXCEPT !.login_result = code] ELSE ReturnErr(s)

\* handle_version_verified, lines 246-301: parse the login, load the
\* account and auto-create an unknown one.
handle_version_verified(c, f, o) ==
    LET s == sessions[c]
    IN /\ s.pc = "loop"
       /\ client_frames > 0
       /\ client_frames' = client_frames - 1
       /\ s.state = VersionVerified
       /\ IF f.op \notin {"C_BEANFUNLOGIN", "C_LOGINPACKET"} \/ ~f.login
          THEN /\ Finish(c, IgnoreFrame(s))
               /\ NoIO
               /\ UNCHANGED accounts
          ELSE /\ IO(c)
               /\ IF ~db
                  THEN /\ Finish(c, LoginReply(s, "ACCESS_FAILED", o.sent))
                       /\ UNCHANGED accounts
                  ELSE IF ~o.load
                  THEN /\ Finish(c, ReturnErr(s))
                       /\ UNCHANGED accounts
                  ELSE IF accounts[f.account].exists
                  THEN /\ Finish(c, [s EXCEPT !.pc = "vv_check",
                                              !.auth = [account |-> f.account,
                                                        password |-> f.password,
                                                        row |-> accounts[f.account]]])
                       /\ UNCHANGED accounts
                  ELSE IF ~o.write
                  THEN /\ Finish(c, LoginReply(s, "ACCESS_FAILED", o.sent))
                       /\ UNCHANGED accounts
                  ELSE /\ accounts' = [accounts EXCEPT
                                         ![f.account] = AccountRow(f.password, 0, 0)]
                       /\ Finish(c, IF o.list
                                    THEN [s EXCEPT !.pc = "vv_check",
                                                   !.auth = [account |-> f.account,
                                                             password |-> f.password,
                                                             row |-> AccountRow(f.password, 0, 0)]]
                                    ELSE ReturnErr(s))
       /\ UNCHANGED <<world, lock, characters, db>>
       /\ UNCHANGED <<wvars, xvars>>

NoAuth == [account |-> None, password |-> None, row |-> NoRow]

\* Mutant of LoginRejected: the already-online check is missing.
LoginRejectedIgnoresOnline(auth) ==
    IF auth.row.banned # 0 THEN "ACCESS_FAILED"
    ELSE IF ~validate_password(auth.password, auth.row.password) THEN "ACCESS_FAILED"
    ELSE None

\* Lines 303-331: the reason code the loaded account is rejected with, or
\* None when the login passes the three checks.
LoginRejected(auth) ==
    IF auth.row.banned # 0 THEN "ACCESS_FAILED"
    ELSE IF auth.row.online # 0 THEN "ACCOUNT_IN_USE"
    ELSE IF ~validate_password(auth.password, auth.row.password) THEN "ACCESS_FAILED"
    ELSE None

\* handle_version_verified, lines 303-348: the checks on the loaded account,
\* set_online, the login result and the character list.
verify_login(c) ==
    LET s0 == sessions[c]
        s == [s0 EXCEPT !.auth = NoAuth]
        a == s0.auth.account
        row == s0.auth.row
    IN /\ s0.pc = "vv_check"
       /\ IO(c)
       /\ \E o \in Outcomes :
            IF LoginRejected(s0.auth) # None
            THEN /\ Finish(c, LoginReply(s, LoginRejected(s0.auth), o.sent))
                 /\ UNCHANGED accounts
            ELSE IF ~o.write
            THEN /\ Finish(c, ReturnErr(s))
                 /\ UNCHANGED accounts
            ELSE /\ accounts' = [accounts EXCEPT ![a] = [@ EXCEPT !.online = 1]]
                 /\ Finish(c, IF o.sent /\ o.list
                              THEN [Continue(s) EXCEPT !.account_name = a,
                                                       !.login_result = "LOGIN_OK",
                                                       !.state = Authenticated]
                              ELSE ReturnErr([s EXCEPT !.account_name = a]))
       /\ UNCHANGED <<world, lock, characters, db>>
       /\ UNCHANGED <<client_frames, wvars, xvars>>

\* handle_create_char (lines 658-736).
handle_create_char(c, s, f) ==
    IF ~db \/ s.account_name = None
    THEN /\ Finish(c, Continue(s))
         /\ NoIO
         /\ UNCHANGED characters
    ELSE /\ IO(c)
         /\ \E o \in Outcomes :
              IF ~f.valid
              THEN /\ Finish(c, Reply(s, o.sent))
                   /\ UNCHANGED characters
              ELSE IF ~o.load
              THEN /\ Finish(c, ReturnErr(s))
                   /\ UNCHANGED characters
              ELSE IF characters[f.name].exists \/ ~o.write
              THEN /\ Finish(c, Reply(s, o.sent))
                   /\ UNCHANGED characters
              ELSE /\ \E millis \in ClockMillis :
                        characters' = [characters EXCEPT ![f.name] =
                                         CharacterRow(s.account_name,
                                                      NewObjId(millis),
                                                      StartX, StartY,
                                                      SpawnMap, 0)]
                   /\ Finish(c, Reply(s, o.sent /\ o.list))

\* handle_authenticated (lines 384-477).
handle_authenticated(c, f) ==
    LET s == sessions[c]
    IN /\ s.pc = "loop"
       /\ client_frames > 0
       /\ client_frames' = client_frames - 1
       /\ s.state = Authenticated
       /\ CASE f.op = "C_LOGINTOSERVER" ->
                 IF ~db
                 THEN /\ Finish(c, Continue(s))
                      /\ NoIO
                      /\ UNCHANGED characters
                 ELSE /\ IO(c)
                      /\ UNCHANGED characters
                      /\ \E o \in Outcomes :
                           LET ch == load_character(f.name, s.account_name)
                               s2 == [s EXCEPT !.char_name = f.name,
                                               !.char_x = ch.x,
                                               !.char_y = ch.y,
                                               !.char_map = ch.map_id,
                                               !.char_heading = ch.heading,
                                               !.char_objid = ch.objid]
                           IN IF ~o.load THEN Finish(c, ReturnErr(s))
                              ELSE IF ~ch.exists THEN Finish(c, Continue(s))
                              ELSE IF ~o.sent THEN Finish(c, ReturnErr(s2))
                              ELSE Finish(c, [s2 EXCEPT !.pc = "sel_lock"])
            [] f.op = "C_NEWCHAR" -> handle_create_char(c, s, f)
            [] OTHER ->
                 /\ Finish(c, IgnoreFrame(s))
                 /\ NoIO
                 /\ UNCHANGED characters
       /\ UNCHANGED <<world, lock, accounts, db>>
       /\ UNCHANGED <<wvars, xvars>>

\* A save_character that leaves the stored row as it is.
save_character_skipped(s, saved) == characters

\* save_character (lines 580-599): the UPDATE, when it succeeds.
save_character(s, saved) ==
    IF db /\ s.char_name # None /\ saved
    THEN [characters EXCEPT ![s.char_name] =
            IF @.exists
            THEN [@ EXCEPT !.x = s.char_x, !.y = s.char_y, !.map_id = s.char_map,
                           !.heading = s.char_heading]
            ELSE @]
    ELSE characters

\* The C_CHANGECHAR arm (lines 541-548): save_character, the state, then
\* send_char_list; o.write is the outcome of the UPDATE, o.load and o.list
\* those of load_char_list and of the sends.
change_char(c, s, o) ==
    /\ characters' = save_character(s, o.write)
    /\ Finish(c, Reply(ChangeCharState(s), o.load /\ o.list))

\* handle_in_game (lines 479-577), up to the first lock().await.
handle_in_game(c, f) ==
    LET s == sessions[c]
    IN /\ s.pc = "loop"
       /\ client_frames > 0
       /\ client_frames' = client_frames - 1
       /\ s.state = InGame
       /\ CASE f.op = "C_MOVECHAR" ->
                 LET d == heading_delta(f.heading)
                 IN /\ Finish(c, [s EXCEPT !.char_x = @ + d[1],
                                           !.char_y = @ + d[2],
                                           !.char_heading = f.heading,
                                           !.pc = "mv_lock"])
                    /\ NoIO
                    /\ UNCHANGED characters
            [] f.op = "C_CHANGEHEADING" ->
                 /\ Finish(c, Continue([s EXCEPT !.char_heading = f.heading]))
                 /\ NoIO
                 /\ UNCHANGED characters
            [] f.op = "C_CHAT" ->
                 /\ \E sent \in BOOLEAN :
                      Finish(c, IF sent THEN [s EXCEPT !.pc = "chat_lock"]
                                        ELSE ReturnErr(s))
                 /\ IO(c)
                 /\ UNCHANGED characters
            [] f.op = "C_QUITGAME" ->
                 /\ Finish(c, ReturnErr(s))
                 /\ IO(c)
                 /\ UNCHANGED characters
            [] f.op = "C_CHANGECHAR" ->
                 /\ \E o \in Outcomes : change_char(c, s, o)
                 /\ IO(c)
            [] f.op = "C_RESTART" ->
                 IF db /\ s.char_name # None
                 THEN /\ IO(c)
                      /\ UNCHANGED characters
                      /\ \E o \in Outcomes :
                           LET ch == load_character(s.char_name, s.account_name)
                           IN IF o.load /\ ch.exists
                              THEN Finish(c, Reply([s EXCEPT !.char_x = ch.x,
                                                             !.char_y = ch.y,
                                                             !.char_map = ch.map_id],
                                                   o.sent))
                              ELSE Finish(c, Continue(s))
                 ELSE /\ Finish(c, Continue(s))
                      /\ NoIO
                      /\ UNCHANGED characters
            [] OTHER ->
                 /\ Finish(c, IgnoreFrame(s))
                 /\ NoIO
                 /\ UNCHANGED characters
       /\ UNCHANGED <<world, lock, accounts, db>>
       /\ UNCHANGED <<wvars, xvars>>

(***************************************************************************)
(* The critical sections on the SharedWorld mutex.                         *)
(***************************************************************************)
\* The position a task reaches when world.lock().await returns.
Locked(pc) ==
    CASE pc = "sel_lock" -> "sel_cs"
      [] pc = "mv_lock" -> "mv_cs"
      [] pc = "chat_lock" -> "chat_cs"
      [] pc = "cl_lock" -> "cl_cs"

\* The positions at which a task holds the mutex.
LockHeld == {"sel_cs", "mv_cs", "mv_cs2", "chat_cs", "cl_cs"}

\* The positions at which a task waits for the mutex.
LockWait == {"sel_lock", "mv_lock", "chat_lock", "cl_lock"}

\* A lock() that returns although another task holds the guard.
lock_world_unguarded(c) ==
    LET s == sessions[c]
    IN /\ s.pc \in LockWait
       /\ lock' = c
       /\ SetSession(c, [s EXCEPT !.pc = Locked(s.pc)])
       /\ NoIO
       /\ UNCHANGED <<queues, world, accounts, characters, db>>
       /\ UNCHANGED <<client_frames, wvars, xvars>>

\* session.world.lock().await (lines 422, 492, 514, 606).
lock_world(c) ==
    LET s == sessions[c]
    IN /\ s.pc \in LockWait
       /\ lock = None
       /\ lock' = c
       /\ SetSession(c, [s EXCEPT !.pc = Locked(s.pc)])
       /\ NoIO
       /\ UNCHANGED <<queues, world, accounts, characters, db>>
       /\ UNCHANGED <<client_frames, wvars, xvars>>

\* C_LOGINTOSERVER with the guard kept past the block: the collected packets
\* are then sent with the lock held.
select_register_holding(c) ==
    LET s == sessions[c]
        me == OnlinePlayer(s.char_objid, s.char_name, s.char_x, s.char_y,
                           s.char_map, s.char_heading, c)
    IN /\ s.pc = "sel_cs"
       /\ queues' = broadcast_to_nearby(queues, world, s.char_map, s.char_x, s.char_y,
                                        s.char_objid,
                                        Payload("charpack", c, s.char_objid))
       /\ world' = add_player(world, me)
       /\ lock' = lock
       /\ SetSession(c, [s EXCEPT !.pc = "sel_send",
                                  !.nearby_packets =
                                      get_nearby_players(world, s.char_map, s.char_x,
                                                         s.char_y, s.char_objid)])
       /\ NoIO
       /\ UNCHANGED <<accounts, characters, db>>
       /\ UNCHANGED <<client_frames, wvars, xvars>>

\* C_LOGINTOSERVER, lines 421-452: collect the nearby players, broadcast
\* our appearance, register, and release the lock at the end of the block.
select_register(c) ==
    LET s == sessions[c]
        me == OnlinePlayer(s.char_objid, s.char_name, s.char_x, s.char_y,
                           s.char_map, s.char_heading, c)
    IN /\ s.pc = "sel_cs"
       /\ queues' = broadcast_to_nearby(queues, world, s.char_map, s.char_x, s.char_y,
                                        s.char_objid,
                                        Payload("charpack", c, s.char_objid))
       /\ world' = add_player(world, me)
       /\ lock' = None
       /\ SetSession(c, [s EXCEPT !.pc = "sel_send",
                                  !.nearby_packets =
                                      get_nearby_players(world, s.char_map, s.char_x,
                                                         s.char_y, s.char_objid)])
       /\ NoIO
       /\ UNCHANGED <<accounts, characters, db>>
       /\ UNCHANGED <<client_frames, wvars, xvars>>

\* C_LOGINTOSERVER, lines 453-462: send the collected packets, enter InGame.
select_send(c) ==
    LET s0 == sessions[c]
        s == [s0 EXCEPT !.nearby_packets = {}]
    IN /\ s0.pc = "sel_send"
       /\ \E sent \in BOOLEAN :
            /\ (s0.nearby_packets = {} => sent)
            /\ Finish(c, IF sent THEN [Continue(s) EXCEPT !.state = InGame]
                                 ELSE ReturnErr(s))
       /\ IF s0.nearby_packets = {} THEN NoIO ELSE IO(c)
       /\ UNCHANGED <<world, lock, accounts, characters, db>>
       /\ UNCHANGED <<client_frames, wvars, xvars>>

\* C_MOVECHAR, line 493: update_position under the lock.
move_update(c) ==
    LET s == sessions[c]
    IN /\ s.pc = "mv_cs"
       /\ world' = update_position(world, s.char_objid, s.char_x, s.char_y, s.char_heading)
       /\ SetSession(c, [s EXCEPT !.pc = "mv_cs2"])
       /\ NoIO
       /\ UNCHANGED <<queues, lock, accounts, characters, db>>
       /\ UNCHANGED <<client_frames, wvars, xvars>>

\* C_MOVECHAR, lines 494-498: broadcast the move; the guard drops at the
\* end of the arm.
move_broadcast(c) ==
    LET s == sessions[c]
    IN /\ s.pc = "mv_cs2"
       /\ queues' = broadcast_to_nearby(queues, world, s.char_map, s.char_x, s.char_y,
                                        s.char_objid, Payload("move", c, s.char_objid))
       /\ lock' = None
       /\ SetSession(c, Continue(s))
       /\ NoIO
       /\ UNCHANGED <<world, accounts, characters, db>>
       /\ UNCHANGED <<client_frames, wvars, xvars>>

\* C_CHAT, lines 514-519: broadcast the chat packet; the guard drops at the
\* end of the arm.
chat_broadcast(c) ==
    LET s == sessions[c]
    IN /\ s.pc = "chat_cs"
       /\ queues' = broadcast_to_nearby(queues, world, s.char_map, s.char_x, s.char_y,
                                        s.char_objid, Payload("chat", c, s.char_objid))
       /\ lock' = None
       /\ SetSession(c, Continue(s))
       /\ NoIO
       /\ UNCHANGED <<world, accounts, characters, db>>
       /\ UNCHANGED <<client_frames, wvars, xvars>>

(***************************************************************************)
(* cleanup_session (lines 602-622).                                        *)
(***************************************************************************)
\* Lines 605-612: broadcast the removal, remove_player, drop(world).
cleanup_deregister(c) ==
    LET s == sessions[c]
    IN /\ s.pc = "cl_cs"
       /\ queues' = broadcast_to_nearby(queues, world, s.char_map, s.char_x, s.char_y,
                                        s.char_objid, Payload("remove", c, s.char_objid))
       /\ world' = remove_player(world, s.char_objid)
       /\ lock' = None
       /\ SetSession(c, [s EXCEPT !.pc = "cl_save"])
       /\ NoIO
       /\ UNCHANGED <<accounts, characters, db>>
       /\ UNCHANGED <<client_frames, wvars, xvars>>

\* Line 614: save_character.
cleanup_save(c) ==
    LET s == sessions[c]
    IN /\ s.pc = "cl_save"
       /\ \E saved \in BOOLEAN : characters' = save_character(s, saved)
       /\ SetSession(c, [s EXCEPT !.pc = "cl_offline"])
       /\ IO(c)
       /\ UNCHANGED <<queues, world, lock, accounts, db>>
       /\ UNCHANGED <<client_frames, wvars, xvars>>

\* Lines 617-621: set_offline, its result ignored; handle_session returns Ok.
cleanup_offline(c) ==
    LET s == sessions[c]
    IN /\ s.pc = "cl_offline"
       /\ IF db /\ s.account_name # None
          THEN /\ \E done \in BOOLEAN :
                    accounts' = IF done
                                THEN [accounts EXCEPT ![s.account_name] =
                                        [@ EXCEPT !.online = 0]]
                                ELSE accounts
               /\ IO(c)
          ELSE /\ UNCHANGED accounts
               /\ NoIO
       /\ Finish(c, [s EXCEPT !.pc = "ended", !.cleaned = TRUE])
       /\ UNCHANGED <<world, lock, characters, db>>
       /\ UNCHANGED <<client_frames, wvars, xvars>>

SessionNext ==
    \/ \E c \in Conns : SendHandshake(c)
    \/ \E c \in Conns : ReadError(c)
    \/ \E c \in Conns : ReadBadHeader(c)
    \/ \E c \in Conns : ForwardBroadcast(c)
    \/ \E c \in Conns, f \in Frames : handle_connected(c, f)
    \/ \E c \in Conns, f \in Frames, o \in Outcomes : handle_version_verified(c, f, o)
    \/ \E c \in Conns : verify_login(c)
    \/ \E c \in Conns, f \in Frames : handle_authenticated(c, f)
    \/ \E c \in Conns, f \in Frames : handle_in_game(c, f)
    \/ \E c \in Conns : lock_world(c)
    \/ \E c \in Conns : select_register(c)
    \/ \E c \in Conns : select_send(c)
    \/ \E c \in Conns : move_update(c)
    \/ \E c \in Conns : move_broadcast(c)
    \/ \E c \in Conns : chat_broadcast(c)
    \/ \E c \in Conns : cleanup_deregister(c)
    \/ \E c \in Conns : cleanup_save(c)
    \/ \E c \in Conns : cleanup_offline(c)

(***************************************************************************)
(* One connection on the wire (session.rs 93-214): the bytes of its        *)
(* socket, its cipher, its packet_rx and the read_packet future that the   *)
(* select! of handle_session polls.  The codec and the cipher are not in   *)
(* the sources at hand: encode_frame and decode_length follow the wire     *)
(* shape of the specification (a two-byte little-endian length that counts *)
(* the header), the cipher is a reversible keyed transform whose state     *)
(* advances with every call.                                               *)
(***************************************************************************)

\* Client frames, broadcasts of other connections: the budget of one run.
MaxClientFrames == 2

MaxBroadcasts == 2

\* send_handshake draws the key from 1..=0x7FFFFFFF.
Keys == {1, 2}

FIRST_PACKET == <<157, 209, 214, 122, 244, 98, 231, 160, 102, 2, 250>>

\* What the client sends, what other connections broadcast, what a handler
\* answers: payloads of a few bytes.
ClientPayloads == {<<3, 255>>, <<3, 4>>}

BroadcastPayloads == {<<7>>}

Replies == {<<5, 6, 0, 0>>}

Min(a, b) == IF a < b THEN a ELSE b

Take(s, n) == SubSeq(s, 1, n)

Drop(s, n) == SubSeq(s, n + 1, Len(s))

encode_frame(payload) ==
    <<(Len(payload) + 2) % 256, ((Len(payload) + 2) \div 256) % 256>>
        \o payload

Cipher_new(key) == [key |-> key, enc |-> 0, dec |-> 0]

encrypt(c, data) == [i \in 1..Len(data) |-> (data[i] + c.key + c.enc) % 256]

decrypt(c, data) ==
    [i \in 1..Len(data) |-> (data[i] + 512 - c.key - c.dec) % 256]

HandshakePayload(key) ==
    <<"S_OPCODE_INITPACKET", key % 256, (key \div 256) % 256,
      (key \div 65536) % 256, (key \div 16777216) % 256>> \o FIRST_PACKET

\* The key the client reads in the handshake frame.
KeyOf(frame) ==
    frame[4] + 256 * frame[5] + 65536 * frame[6] + 16777216 * frame[7]

\* An always-padding variant: one more block when the length is aligned.
padded_len_always(n) == n + 4 - (n % 4)

\* (payload.len() + 3) & !3
padded_len(n) == (n + 3) - ((n + 3) % 4)

PadBuffer(payload) ==
    [i \in 1..padded_len(Len(payload)) |->
        IF i <= Len(payload) THEN payload[i] ELSE 0]

TheCipher(w) == CHOOSE c \in w.cipher : TRUE

\* send_packet that skips the cipher.
send_packet_data_plain(w, payload) == PadBuffer(payload)

\* The bytes send_packet frames: the padded payload, encrypted when the
\* session has a cipher.
send_packet_data(w, payload) ==
    IF w.cipher = {} THEN PadBuffer(payload)
    ELSE encrypt(TheCipher(w), PadBuffer(payload))

\* Session::send_packet: `written` is the outcome of write_all and flush.
send_packet(w, payload, written) ==
    LET data == send_packet_data(w, payload)
        w1 == IF w.cipher = {} THEN w
              ELSE [w EXCEPT !.cipher = {[TheCipher(w) EXCEPT !.enc = @ + 1]},
                             !.encrypted =
                                 Append(@, [data |-> PadBuffer(payload),
                                            ct |-> data])]
    IN IF written
       THEN [w1 EXCEPT !.out = Append(@, encode_frame(data))]
       ELSE [w1 EXCEPT !.pc = "closed"]

WireInit ==
    wire = [pc |-> "handshake", cipher |-> {}, cipher_inits |-> 0,
            net |-> << >>, sock |-> << >>, rd |-> << >>,
            packet_rx |-> << >>, out |-> << >>,
            received |-> << >>, dispatched |-> << >>,
            encrypted |-> << >>, client_sent |-> << >>,
            enqueued |-> << >>, forwarded |-> << >>]

\* handle_session 167-177: the handshake frame, then the cipher.
wire_send_handshake(key, written) ==
    /\ wire.pc = "handshake"
    /\ wire' = IF written
               THEN [wire EXCEPT
                       !.out = Append(@, encode_frame(HandshakePayload(key))),
                       !.cipher = {Cipher_new(key)},
                       !.cipher_inits = @ + 1,
                       !.pc = "select"]
               ELSE [wire EXCEPT !.pc = "closed"]
    /\ UNCHANGED <<wvars, svars, uvars>>

\* The client, once it has the key: one frame, encrypted with its own copy
\* of the cipher, handed to the network.
client_send(p) ==
    /\ wire.out # << >>
    /\ wire.pc # "closed"
    /\ Len(wire.client_sent) < MaxClientFrames
    /\ LET c == [Cipher_new(KeyOf(wire.out[1])) EXCEPT
                    !.enc = Len(wire.client_sent)]
           ct == encrypt(c, p)
       IN wire' = [wire EXCEPT !.net = @ \o encode_frame(ct),
                               !.client_sent = Append(@, [data |-> p,
                                                          ct |-> ct])]
    /\ UNCHANGED <<wvars, svars, uvars>>

\* The network delivers the next byte to the server's socket.
net_deliver ==
    /\ wire.net # << >>
    /\ wire.pc # "closed"
    /\ wire' = [wire EXCEPT !.net = Tail(@), !.sock = Append(@, Head(wire.net))]
    /\ UNCHANGED <<wvars, svars, uvars>>

\* How many more bytes the read_packet future wants, given those it holds.
Need(got) ==
    IF Len(got) < 2 THEN 2 - Len(got)
    ELSE LET len == decode_length(got[1], got[2])
         IN IF len = {} THEN 0
            ELSE (CHOOSE n \in len : TRUE) + 2 - Len(got)

\* One poll of the future: the header bytes at hand, then the body bytes
\* at hand.
Poll(got, sock) ==
    LET n1 == Min(Need(got), Len(sock))
        g1 == got \o Take(sock, n1)
        s1 == Drop(sock, n1)
        n2 == Min(Need(g1), Len(s1))
    IN [got |-> g1 \o Take(s1, n2), sock |-> Drop(s1, n2)]

BadHeader(got) == Len(got) >= 2 /\ decode_length(got[1], got[2]) = {}

Complete(got) == Len(got) >= 2 /\ ~BadHeader(got) /\ Need(got) = 0

\* The socket arm of the select!: read_packet is polled with bytes at hand.
\* A bad header ends the connection, a frame still short leaves the future
\* pending, a whole frame is decrypted and, unless empty, dispatched; the
\* handler may answer.
wire_read_packet ==
    /\ wire.pc = "select"
    /\ wire.sock # << >>
    /\ LET p == Poll(wire.rd, wire.sock)
       IN IF BadHeader(p.got)
          THEN wire' = [wire EXCEPT !.sock = p.sock, !.rd = << >>,
                                    !.pc = "closed"]
          ELSE IF ~Complete(p.got)
          THEN wire' = [wire EXCEPT !.sock = p.sock, !.rd = p.got]
          ELSE LET ct == Drop(p.got, 2)
                   data == IF wire.cipher = {} THEN ct
                           ELSE decrypt(TheCipher(wire), ct)
                   w1 == [wire EXCEPT
                            !.sock = p.sock, !.rd = << >>,
                            !.cipher = IF wire.cipher = {} THEN {}
                                       ELSE {[TheCipher(wire) EXCEPT
                                                !.dec = @ + 1]},
                            !.received = Append(@, [ct |-> ct,
                                                    data |-> data])]
               IN IF data = << >>
                  THEN wire' = w1
                  ELSE LET w2 == [w1 EXCEPT !.dispatched = Append(@, data)]
                       IN \/ wire' = w2
                          \/ \E reply \in Replies, written \in BOOLEAN :
                                wire' = send_packet(w2, reply, written)
    /\ UNCHANGED <<wvars, svars, uvars>>

\* Another connection's broadcast lands in packet_rx.
enqueue_broadcast(b) ==
    /\ wire.pc = "select"
    /\ Len(wire.enqueued) < MaxBroadcasts
    /\ wire' = [wire EXCEPT !.packet_rx = Append(@, b),
                            !.enqueued = Append(@, b)]
    /\ UNCHANGED <<wvars, svars, uvars>>

\* The queue arm of the select!: the payload is sent, and the read_packet
\* future of this round is dropped with the bytes it holds.
wire_recv_broadcast(written) ==
    /\ wire.pc = "select"
    /\ wire.packet_rx # << >>
    /\ LET b == Head(wire.packet_rx)
           w1 == [wire EXCEPT !.packet_rx = Tail(@), !.rd = << >>,
                              !.forwarded = IF written THEN Append(@, b)
                                            ELSE @]
       IN wire' = send_packet(w1, b, written)
    /\ UNCHANGED <<wvars, svars, uvars>>

\* The socket fails under read_packet.
wire_read_error ==
    /\ wire.pc = "select"
    /\ wire' = [wire EXCEPT !.pc = "closed", !.rd = << >>]
    /\ UNCHANGED <<wvars, svars, uvars>>

WireNext ==
    \/ \E key \in Keys, written \in BOOLEAN : wire_send_handshake(key, written)
    \/ \E p \in ClientPayloads : client_send(p)
    \/ net_deliver
    \/ wire_read_packet
    \/ \E b \in BroadcastPayloads : enqueue_broadcast(b)
    \/ \E written \in BOOLEAN : wire_recv_broadcast(written)
    \/ wire_read_error

(***************************************************************************)
(* Siege units (siege_units.rs): one catapult and one castle guard.        *)
(***************************************************************************)
CATAPULT_RELOAD_TICKS == 50

ATTACK_COOLDOWN_TICKS == 10

\* CatapultState::new
CatapultState_new(object_id, castle_id, side, x, y, map_id) ==
    [object_id |-> object_id, side |-> side, castle_id |-> castle_id,
     x |-> x, y |-> y, map_id |-> map_id,
     cur_hp |-> 500, max_hp |-> 500,
     operator_id |-> 0, reload_remaining |-> 0, destroyed |-> FALSE]

\* A mount that lets anybody operate the catapult.
mount_anybody(cat, player_id, is_royal) ==
    IF cat.destroyed \/ cat.operator_id # 0
    THEN [cat |-> cat, ret |-> FALSE]
    ELSE [cat |-> [cat EXCEPT !.operator_id = player_id], ret |-> TRUE]

\* CatapultState::mount
mount(cat, player_id, is_royal) ==
    IF cat.destroyed \/ cat.operator_id # 0 \/ ~is_royal
    THEN [cat |-> cat, ret |-> FALSE]
    ELSE [cat |-> [cat EXCEPT !.operator_id = player_id], ret |-> TRUE]

\* CatapultState::dismount
dismount(cat) == [cat EXCEPT !.operator_id = 0]

\* A try_fire that starts the reload before it looks for the bomb.
try_fire_reloading_first(cat, target_x, target_y, has_bomb) ==
    IF cat.destroyed THEN [cat |-> cat, ret |-> [kind |-> "Destroyed"]]
    ELSE IF cat.operator_id = 0 THEN [cat |-> cat, ret |-> [kind |-> "NoOperator"]]
    ELSE IF cat.reload_remaining > 0
    THEN [cat |-> cat,
          ret |-> [kind |-> "Reloading", ticks_left |-> cat.reload_remaining]]
    ELSE IF ~has_bomb
    THEN [cat |-> [cat EXCEPT !.reload_remaining = CATAPULT_RELOAD_TICKS],
          ret |-> [kind |-> "NoBombs"]]
    ELSE [cat |-> [cat EXCEPT !.reload_remaining = CATAPULT_RELOAD_TICKS],
          ret |-> [kind |-> "Fire", impact_x |-> target_x, impact_y |-> target_y,
                   damage |-> 80, splash_radius |-> 3]]

\* CatapultState::try_fire
try_fire(cat, target_x, target_y, has_bomb) ==
    IF cat.destroyed THEN [cat |-> cat, ret |-> [kind |-> "Destroyed"]]
    ELSE IF cat.operator_id = 0 THEN [cat |-> cat, ret |-> [kind |-> "NoOperator"]]
    ELSE IF cat.reload_remaining > 0
    THEN [cat |-> cat,
          ret |-> [kind |-> "Reloading", ticks_left |-> cat.reload_remaining]]
    ELSE IF ~has_bomb THEN [cat |-> cat, ret |-> [kind |-> "NoBombs"]]
    ELSE [cat |-> [cat EXCEPT !.reload_remaining = CATAPULT_RELOAD_TICKS],
          ret |-> [kind |-> "Fire", impact_x |-> target_x, impact_y |-> target_y,
                   damage |-> 80, splash_radius |-> 3]]

\* CatapultState::tick
catapult_tick(cat) ==
    IF cat.reload_remaining > 0
    THEN [cat EXCEPT !.reload_remaining = @ - 1]
    ELSE cat

\* CatapultState::receive_damage
catapult_receive_damage(cat, damage) ==
    LET hp == Max2(cat.cur_hp - damage, 0)
    IN IF hp <= 0
       THEN [cat |-> [cat EXCEPT !.cur_hp = hp, !.destroyed = TRUE,
                                 !.operator_id = 0],
             ret |-> TRUE]
       ELSE [cat |-> [cat EXCEPT !.cur_hp = hp], ret |-> FALSE]

\* CatapultState::repair
repair(cat) ==
    [cat EXCEPT !.cur_hp = cat.max_hp, !.destroyed = FALSE,
                !.operator_id = 0, !.reload_remaining = 0]

\* official_guard_templates: the knight of the royal guard at Aden.
RoyalKnight == [guard_type |-> "RoyalKnight", level |-> 70, hp |-> 11513,
                attack_range |-> 1, damage_min |-> 30, damage_max |-> 60]

\* GuardState::from_template
GuardState_from_template(object_id, t, castle_id, x, y, map_id) ==
    [object_id |-> object_id, guard_type |-> t.guard_type, castle_id |-> castle_id,
     x |-> x, y |-> y, map_id |-> map_id, heading |-> 0,
     cur_hp |-> t.hp, max_hp |-> t.hp, level |-> t.level,
     target_id |-> 0, atk_cooldown |-> 0, is_alive |-> TRUE,
     damage_min |-> t.damage_min, damage_max |-> t.damage_max,
     attack_range |-> t.attack_range]

\* GuardState::tick
guard_tick(g) ==
    IF g.atk_cooldown > 0 THEN [g EXCEPT !.atk_cooldown = @ - 1] ELSE g

\* A try_attack that lets a dead guard strike.
try_attack_when_dead(g, roll) ==
    IF g.target_id = 0 \/ g.atk_cooldown > 0
    THEN [guard |-> g, ret |-> 0]
    ELSE [guard |-> [g EXCEPT !.atk_cooldown = ATTACK_COOLDOWN_TICKS],
          ret |-> roll]

\* GuardState::try_attack; roll is the draw from damage_min..=damage_max.
try_attack(g, roll) ==
    IF ~g.is_alive \/ g.target_id = 0 \/ g.atk_cooldown > 0
    THEN [guard |-> g, ret |-> 0]
    ELSE [guard |-> [g EXCEPT !.atk_cooldown = ATTACK_COOLDOWN_TICKS],
          ret |-> roll]

\* GuardState::receive_damage
guard_receive_damage(g, damage) ==
    IF ~g.is_alive THEN [guard |-> g, ret |-> TRUE]
    ELSE LET hp == Max2(g.cur_hp - damage, 0)
         IN IF hp <= 0
            THEN [guard |-> [g EXCEPT !.cur_hp = hp, !.is_alive = FALSE,
                                      !.target_id = 0],
                  ret |-> TRUE]
            ELSE [guard |-> [g EXCEPT !.cur_hp = hp], ret |-> FALSE]

\* The callers' arguments.
PlayerIds == {100, 101}

FireTarget == <<110, 210>>

CatapultDamages == {0, 200, 600}

GuardDamages == {0, 6000, 12000}

GuardTargets == {0, 999}

\* Ticks counted since an event, -1 before the first one; the count stops
\* one past the limit.
Count(n, limit) == IF n < 0 \/ n > limit THEN n ELSE n + 1

SiegeInit ==
    /\ catapult = CatapultState_new(1, 1, "Attacker", 100, 200, 4)
    /\ guard = GuardState_from_template(1, RoyalKnight, 7, 100, 200, 4)
    /\ elapsed = [shot |-> -1, repaired |-> FALSE, attack |-> -1]

\* The calls of the catapult's methods.
call_mount(player_id, is_royal) ==
    LET r == mount(catapult, player_id, is_royal)
    IN /\ catapult' = r.cat
       /\ last_call' = [op |-> "mount", player_id |-> player_id,
                        is_royal |-> is_royal, ret |-> r.ret]
       /\ UNCHANGED <<guard, elapsed>>
       /\ UNCHANGED <<npcs, grid, player_positions, next_object_id, tick_count>>
       /\ UNCHANGED <<svars, wire>>

call_dismount ==
    /\ catapult' = dismount(catapult)
    /\ last_call' = [op |-> "dismount"]
    /\ UNCHANGED <<guard, elapsed>>
    /\ UNCHANGED <<npcs, grid, player_positions, next_object_id, tick_count>>
    /\ UNCHANGED <<svars, wire>>

call_try_fire(target_x, target_y, has_bomb) ==
    LET r == try_fire(catapult, target_x, target_y, has_bomb)
    IN /\ catapult' = r.cat
       /\ last_call' = [op |-> "try_fire", has_bomb |-> has_bomb, ret |-> r.ret]
       /\ elapsed' = IF r.ret.kind = "Fire"
                     THEN [elapsed EXCEPT !.shot = 0, !.repaired = FALSE]
                     ELSE elapsed
       /\ UNCHANGED guard
       /\ UNCHANGED <<npcs, grid, player_positions, next_object_id, tick_count>>
       /\ UNCHANGED <<svars, wire>>

call_catapult_tick ==
    /\ catapult' = catapult_tick(catapult)
    /\ last_call' = [op |-> "catapult_tick"]
    /\ elapsed' = [elapsed EXCEPT !.shot = Count(@, CATAPULT_RELOAD_TICKS)]
    /\ UNCHANGED guard
    /\ UNCHANGED <<npcs, grid, player_positions, next_object_id, tick_count>>
    /\ UNCHANGED <<svars, wire>>

call_catapult_receive_damage(damage) ==
    LET r == catapult_receive_damage(catapult, damage)
    IN /\ catapult' = r.cat
       /\ last_call' = [op |-> "receive_damage", damage |-> damage, ret |-> r.ret]
       /\ UNCHANGED <<guard, elapsed>>
       /\ UNCHANGED <<npcs, grid, player_positions, next_object_id, tick_count>>
       /\ UNCHANGED <<svars, wire>>

call_repair ==
    /\ catapult' = repair(catapult)
    /\ last_call' = [op |-> "repair"]
    /\ elapsed' = [elapsed EXCEPT !.repaired = TRUE]
    /\ UNCHANGED guard
    /\ UNCHANGED <<npcs, grid, player_positions, next_object_id, tick_count>>
    /\ UNCHANGED <<svars, wire>>

CatapultNext ==
    \/ \E p \in PlayerIds, is_royal \in BOOLEAN : call_mount(p, is_royal)
    \/ call_dismount
    \/ \E has_bomb \in BOOLEAN : call_try_fire(FireTarget[1], FireTarget[2], has_bomb)
    \/ call_catapult_tick
    \/ \E d \in CatapultDamages : call_catapult_receive_damage(d)
    \/ call_repair

\* The calls of the guard's methods, and the caller's write of its target.
set_guard_target(target_id) ==
    /\ guard' = [guard EXCEPT !.target_id = target_id]
    /\ last_call' = [op |-> "write_target", target_id |-> target_id]
    /\ UNCHANGED <<catapult, elapsed>>
    /\ UNCHANGED <<npcs, grid, player_positions, next_object_id, tick_count>>
    /\ UNCHANGED <<svars, wire>>

call_guard_tick ==
    /\ guard' = guard_tick(guard)
    /\ last_call' = [op |-> "guard_tick"]
    /\ elapsed' = [elapsed EXCEPT !.attack = Count(@, ATTACK_COOLDOWN_TICKS)]
    /\ UNCHANGED catapult
    /\ UNCHANGED <<npcs, grid, player_positions, next_object_id, tick_count>>
    /\ UNCHANGED <<svars, wire>>

call_try_attack ==
    \E roll \in guard.damage_min..guard.damage_max :
       LET r == try_attack(guard, roll)
       IN /\ guard' = r.guard
          /\ last_call' = [op |-> "try_attack", ret |-> r.ret]
          /\ elapsed' = IF r.ret # 0 THEN [elapsed EXCEPT !.attack = 0] ELSE elapsed
          /\ UNCHANGED catapult
          /\ UNCHANGED <<npcs, grid, player_positions, next_object_id, tick_count>>
          /\ UNCHANGED <<svars, wire>>

call_guard_receive_damage(damage) ==
    LET r == guard_receive_damage(guard, damage)
    IN /\ guard' = r.guard
       /\ last_call' = [op |-> "guard_receive_damage", damage |-> damage,
                        ret |-> r.ret]
       /\ UNCHANGED <<catapult, elapsed>>
       /\ UNCHANGED <<npcs, grid, player_positions, next_object_id, tick_count>>
       /\ UNCHANGED <<svars, wire>>

GuardNext ==
    \/ \E t \in GuardTargets : set_guard_target(t)
    \/ call_guard_tick
    \/ call_try_attack
    \/ \E d \in GuardDamages : call_guard_receive_damage(d)

Init == WorldInit /\ SessionInit /\ WireInit /\ SiegeInit

\* The tick engine alone: the connections stay as constructed.
WorldOnlyInit == Init /\ db = TRUE

WorldSpec == WorldOnlyInit /\ [][WorldNext]_vars

\* One entity over a longer run of ticks, with the driver writing its fields.
MaxLoneTicks == 4     \* ticks of the lone entity's world

TargetIds == {0, 99999}

LoneNext ==
    \/ \E t \in TemplateArgs, xy \in SpawnPoints :
          DOMAIN npcs = {} /\ spawn_npc(t, xy[1], xy[2], SpawnMap)
    \/ \E range \in SleepRanges : tick_within(range, MaxLoneTicks)
    \/ \E p \in ObserverIds, xy \in ObserverPoints : SetObserver(p, xy)
    \/ \E p \in ObserverIds : DropObserver(p)
    \/ \E id \in DOMAIN npcs : set_alive(id, FALSE)
    \/ \E id \in DOMAIN npcs, t \in TargetIds : set_target_id(id, t)
    \/ \E id \in DOMAIN npcs, t \in TemplateArgs : set_template_id(id, t)

LoneSpec == WorldOnlyInit /\ [][LoneNext]_vars

CatapultSpec == WorldOnlyInit /\ [][CatapultNext]_vars

GuardSpec == WorldOnlyInit /\ [][GuardNext]_vars

WireSpec == WorldOnlyInit /\ [][WireNext]_vars

SessionSpec == Init /\ [][SessionNext]_vars

(***************************************************************************)
(* Claims about the tick engine (WorldSpec).                               *)
(***************************************************************************)
\* The entities present before and after a step.
Kept == DOMAIN npcs \cap DOMAIN npcs'

IsTickStep == tick_count' # tick_count

\* What a tick must leave alone in an entity it does not move.
SameMotion(a, b) ==
    /\ a.pos = b.pos
    /\ a.cooldown_ticks = b.cooldown_ticks
    /\ a.random_walk_distance = b.random_walk_distance
    /\ a.random_walk_direction = b.random_walk_direction

Unobserved(npc, range) ==
    npc.alive /\ ~any_player_nearby(player_positions, npc.pos, range)

\* C7: an alive entity with no observer within range is not moved by tick:
\* its position, heading, cooldown and random-walk distance and heading are
\* as before and it is not in the batch; a tick with no observers returns an
\* empty batch and moves nothing; and since no other operation touches an
\* entity's cooldown, an entity observed again resumes with the cooldown it
\* had.
C7_UnobservedFrozen ==
    [][ /\ \A id \in Kept :
             (~IsTickStep \/ Unobserved(npcs[id], last_call'.range))
                 => SameMotion(npcs[id], npcs'[id])
        /\ IsTickStep =>
             /\ \A id \in DOMAIN npcs :
                  Unobserved(npcs[id], last_call'.range)
                      => \A m \in last_call'.ret : m.npc_id # id
             /\ DOMAIN player_positions = {} =>
                  /\ last_call'.ret = {}
                  /\ \A id \in DOMAIN npcs : npcs'[id].pos = npcs[id].pos
      ]_vars

\* C7 witness: a tick has passed over an alive entity that was cooling down
\* and had no observer in range.
C7_Witness ==
    /\ last_call.op = "tick"
    /\ \E id \in DOMAIN npcs :
          /\ npcs[id].alive
          /\ npcs[id].cooldown_ticks > 0
          /\ ~npcs[id].players_nearby
          /\ ~any_player_nearby(player_positions, npcs[id].pos, last_call.range)

\* C8: every entry of a tick's batch has old_pos the entity's position
\* before the tick and new_pos its position after it, on the same map, one
\* tile apart, the step being the direction table's delta of new_pos.heading.
C8_BatchEntries ==
    [][ IsTickStep =>
          \A m \in last_call'.ret :
             /\ m.npc_id \in Kept
             /\ m.old_pos = npcs[m.npc_id].pos
             /\ m.new_pos = npcs'[m.npc_id].pos
             /\ m.new_pos.map_id = m.old_pos.map_id
             /\ LET dx == m.new_pos.x - m.old_pos.x
                    dy == m.new_pos.y - m.old_pos.y
                IN /\ Abs(dx) <= 1
                   /\ Abs(dy) <= 1
                   /\ ~(dx = 0 /\ dy = 0)
                   /\ m.new_pos.heading \in 0..7
                   /\ <<dx, dy>> = heading_delta(m.new_pos.heading)
      ]_vars

\* C8 witness: a tick returned a batch with an entry whose entity had
\* already moved before (its old heading may differ from the new one).
C8_Witness ==
    /\ last_call.op = "tick"
    /\ \E m \in last_call.ret : m.old_pos.heading # m.new_pos.heading

\* C9: spawn_npc with a template id that is not in the table returns None
\* and leaves the entity set, the spatial index and the next object id as
\* they were.
C9_SpawnUnknown ==
    [][ (/\ last_call'.op = "spawn_npc"
         /\ last_call' # last_call
         /\ last_call'.template_id \notin DOMAIN npc_templates)
          => /\ last_call'.ret = None
             /\ UNCHANGED <<npcs, grid, next_object_id>>
      ]_vars

\* C9 witness: a spawn of an unknown template has returned None in a world
\* that already holds an entity.
C9_Witness ==
    /\ last_call.op = "spawn_npc"
    /\ last_call.template_id \notin DOMAIN npc_templates
    /\ last_call.ret = None
    /\ DOMAIN npcs # {}

\* C10: the spatial index holds each entity of the entity set exactly once,
\* at the cell of its stored (map, x, y), and nothing else, so its object
\* count is the entity-set size.
C10_GridMatchesEntities ==
    /\ grid = {Cell(id, npcs[id].pos.map_id, npcs[id].pos.x, npcs[id].pos.y) :
                  id \in DOMAIN npcs}
    /\ \A id \in DOMAIN npcs : npcs[id].id = id
    /\ grid_total_objects(grid) = Cardinality(DOMAIN npcs)

\* C10 witness: after a tick that moved an entity and a removal, an entity
\* that has left its spawn cell is still indexed.
C10_Witness ==
    /\ tick_count > 0
    /\ Cardinality(DOMAIN npcs) = 1
    /\ next_object_id = BaseObjectId + 2
    /\ \E id \in DOMAIN npcs :
          <<npcs[id].pos.x, npcs[id].pos.y>> # <<npcs[id].home_x, npcs[id].home_y>>


\* C19: the object ids returned by successful spawn_npc calls are pairwise
\* distinct and strictly increasing from the base 0x10000000, over spawns,
\* failed spawns and removals: each successful spawn returns the counter,
\* which is at least the base, above every id handed out before and never
\* goes back, so the id of a removed entity is not handed out again.
C19_IdsIncrease ==
    /\ [](/\ next_object_id >= BaseObjectId
          /\ \A id \in DOMAIN npcs : BaseObjectId <= id /\ id < next_object_id)
    /\ [][ /\ next_object_id' >= next_object_id
           /\ (/\ last_call'.op = "spawn_npc"
               /\ last_call' # last_call
               /\ last_call'.template_id \in DOMAIN npc_templates)
                 => /\ last_call'.ret = next_object_id
                    /\ next_object_id' = next_object_id + 1
                    /\ last_call'.ret \notin DOMAIN npcs
      ]_vars

\* C19 witness: the second successful spawn, made after the first entity
\* was removed, has returned the id after the removed one.
C19_Witness ==
    /\ last_call.op = "spawn_npc"
    /\ last_call.template_id \in DOMAIN npc_templates
    /\ last_call.ret = BaseObjectId + 1
    /\ DOMAIN npcs = {BaseObjectId + 1}

\* C24: remove_npc of a present id deletes the entity and its membership in
\* the spatial index at its current cell, also after ticks have moved it,
\* and leaves every other entity and membership alone, so that a spawn
\* followed by the removal of the returned id restores the entity set and
\* the index; remove_npc of an absent id changes nothing.
C24_RemoveNpc ==
    [][ (last_call'.op = "remove_npc" /\ last_call' # last_call)
          => LET id == last_call'.id
             IN /\ id \in DOMAIN npcs =>
                     /\ DOMAIN npcs' = DOMAIN npcs \ {id}
                     /\ \A i \in DOMAIN npcs' : npcs'[i] = npcs[i]
                     /\ Cell(id, npcs[id].pos.map_id, npcs[id].pos.x,
                             npcs[id].pos.y) \in grid
                     /\ grid' = {m \in grid : m.id # id}
                     /\ (last_call.op = "spawn_npc"
                         /\ last_call.template_id \in DOMAIN npc_templates
                         /\ last_call.ret = id)
                          => /\ grid' = grid \ {Cell(id, SpawnMap,
                                                     npcs[id].home_x,
                                                     npcs[id].home_y)}
                             /\ grid_total_objects(grid')
                                  = Cardinality(DOMAIN npcs')
                /\ id \notin DOMAIN npcs => UNCHANGED <<npcs, grid>>
                /\ UNCHANGED <<next_object_id, tick_count, player_positions>>
      ]_vars

\* C24 witness: after a tick, the first entity has been removed while the
\* second, which has left its spawn cell, is still there and indexed.
C24_Witness ==
    /\ last_call.op = "remove_npc"
    /\ last_call.id = BaseObjectId
    /\ tick_count > 0
    /\ DOMAIN npcs = {BaseObjectId + 1}
    /\ <<npcs[BaseObjectId + 1].pos.x, npcs[BaseObjectId + 1].pos.y>>
          # <<npcs[BaseObjectId + 1].home_x, npcs[BaseObjectId + 1].home_y>>
    /\ grid_total_objects(grid) = 1

\* A step taken by tick, told from the call record and the engine's fields.
TickCalled ==
    /\ last_call'.op = "tick"
    /\ <<npcs, grid, tick_count, last_call>>' # <<npcs, grid, tick_count, last_call>>

\* C25: a tick increments the tick counter by exactly one and makes one
\* pass: its batch holds at most one entry per entity, only for entities
\* that were alive and within range of an observer at that tick, and every
\* entity without an entry keeps its position; so a batch is never larger
\* than the entity set and entities outside every observer's range
\* contribute nothing.
C25_TickOnePass ==
    [][ TickCalled =>
          LET batch == last_call'.ret
              range == last_call'.range
          IN /\ tick_count' = tick_count + 1
             /\ DOMAIN npcs' = DOMAIN npcs
             /\ \A m1, m2 \in batch : m1.npc_id = m2.npc_id => m1 = m2
             /\ Cardinality(batch) <= Cardinality(DOMAIN npcs)
             /\ \A m \in batch :
                  /\ m.npc_id \in DOMAIN npcs
                  /\ npcs[m.npc_id].alive
                  /\ any_player_nearby(player_positions, npcs[m.npc_id].pos, range)
             /\ \A id \in DOMAIN npcs :
                  (\A m \in batch : m.npc_id # id) => npcs'[id].pos = npcs[id].pos
             /\ (\A id \in DOMAIN npcs :
                    ~any_player_nearby(player_positions, npcs[id].pos, range))
                  => batch = {}
      ]_vars

\* C25 witness: the second tick has returned a batch with one entry while
\* the world holds two entities, the other one out of the observer's range.
C25_Witness ==
    /\ last_call.op = "tick"
    /\ tick_count = 2
    /\ Cardinality(DOMAIN npcs) = 2
    /\ Cardinality(last_call.ret) = 1
    /\ \E id \in DOMAIN npcs :
          /\ \A m \in last_call.ret : m.npc_id # id
          /\ ~any_player_nearby(player_positions, npcs[id].pos, last_call.range)

\* An entity the random walk applies to: its template is tagged as a
\* monster and it has no target.
Roaming(npc) ==
    /\ npc.template_id \in DOMAIN npc_templates
    /\ ContainsMonster(npc_templates[npc.template_id].impl_type)
    /\ npc.target_id = 0

InBatch(id, batch) == \E m \in batch : m.npc_id = id

\* C29: for an alive entity with an observer in range, a tick decrements a
\* positive movement cooldown by exactly one and does not move the entity
\* while the cooldown is still positive afterwards; the entity moves only
\* in a tick where the cooldown is zero after the decrement, the move
\* resets the cooldown to the entity's move delay, and a roaming entity
\* does move in every such tick: so it moves once every move-delay ticks,
\* and a freshly spawned roaming entity moves on its first observed tick.
C29_CooldownPacesMoves ==
    [][ TickCalled =>
          \A id \in DOMAIN npcs :
             LET npc == npcs[id]
                 c == npc.cooldown_ticks
                 after == IF c > 0 THEN c - 1 ELSE 0
                 moved == InBatch(id, last_call'.ret)
             IN (npc.alive /\ any_player_nearby(player_positions, npc.pos,
                                                last_call'.range))
                  => /\ c \in 0..npc.move_delay_ticks
                     /\ npc.move_delay_ticks >= 1
                     /\ after > 0 =>
                          /\ ~moved
                          /\ npcs'[id].cooldown_ticks = after
                          /\ npcs'[id].pos = npc.pos
                     /\ moved =>
                          /\ after = 0
                          /\ npcs'[id].cooldown_ticks = npc.move_delay_ticks
                          /\ npcs'[id].pos # npc.pos
                     /\ ~moved => npcs'[id].cooldown_ticks = after
                     /\ (Roaming(npc) /\ after = 0) => moved
                     /\ (Roaming(npc) /\ npc = NewNpcEntity(id, npc.template_id,
                                                            npc.pos.x, npc.pos.y,
                                                            npc.pos.map_id))
                          => moved
      ]_vars

\* C29 witness: the third tick has moved an entity that had moved before,
\* away from a cell that is not its spawn cell, after its cooldown ran out.
C29_Witness ==
    /\ last_call.op = "tick"
    /\ tick_count = 3
    /\ \E m \in last_call.ret :
          /\ m.npc_id \in DOMAIN npcs
          /\ <<m.old_pos.x, m.old_pos.y>>
                # <<npcs[m.npc_id].home_x, npcs[m.npc_id].home_y>>
          /\ npcs[m.npc_id].cooldown_ticks = npcs[m.npc_id].move_delay_ticks

\* An entity the tick never moves: dead, or with a target, or with a
\* template that is missing from the table or not tagged as a monster.
Inert(npc) == ~npc.alive \/ ~Roaming(npc)

C31_RandomWalkCounters ==
    /\ [](\A id \in DOMAIN npcs :
             /\ npcs[id].random_walk_distance \in 0..5
             /\ npcs[id].random_walk_direction \in 0..7)
    /\ [][ \A id \in Kept :
             LET npc == npcs[id]
                 new == npcs'[id]
                 moved == TickCalled /\ InBatch(id, last_call'.ret)
             IN /\ (moved /\ npc.random_walk_distance # 0)
                     => /\ new.random_walk_distance = npc.random_walk_distance - 1
                        /\ new.random_walk_direction = npc.random_walk_direction
                        /\ npc.pos.heading = npc.random_walk_direction
                        /\ new.pos.heading = npc.pos.heading
                /\ (moved /\ npc.random_walk_distance = 0)
                     => /\ new.random_walk_distance \in 1..5
                        /\ new.random_walk_direction \in 0..7
                        /\ new.pos.heading = new.random_walk_direction
                /\ ~moved
                     => /\ new.random_walk_distance = npc.random_walk_distance
                        /\ new.random_walk_direction = npc.random_walk_direction
         ]_vars

\* C31 witness: the third tick has moved an entity a second time, in the
\* heading of its first move, and has used up a remaining distance of one.
C31_Witness ==
    /\ last_call.op = "tick"
    /\ tick_count = 3
    /\ \E m \in last_call.ret :
          /\ m.npc_id \in DOMAIN npcs
          /\ <<m.old_pos.x, m.old_pos.y>>
                # <<npcs[m.npc_id].home_x, npcs[m.npc_id].home_y>>
          /\ m.old_pos.heading = m.new_pos.heading
          /\ m.new_pos.heading = 5
          /\ npcs[m.npc_id].random_walk_distance = 0

(***************************************************************************)
(* Claims about the connections (SessionSpec).                             *)
(***************************************************************************)
\* The opcodes the transition table lists for a state.
Listed(state) ==
    CASE state = Connected -> {"C_CLIENTVERSION"}
      [] state = VersionVerified -> {"C_BEANFUNLOGIN", "C_LOGINPACKET"}
      [] state = Authenticated -> {"C_LOGINTOSERVER", "C_NEWCHAR"}
      [] state = InGame -> {"C_MOVECHAR", "C_CHANGEHEADING", "C_CHAT", "C_QUITGAME",
                            "C_CHANGECHAR", "C_RESTART"}

\* The frames whose opcode the transition table does not list for a state.
Unlisted ==
    [state \in {Connected, VersionVerified, Authenticated, InGame} |->
        {f \in Frames : f.op \notin Listed(state)}]

\* The step in which connection c dispatches frame f to the handler of its
\* state (the match on session.state, lines 199-204).
Dispatch(c, f) ==
    CASE sessions[c].state = Connected -> handle_connected(c, f)
      [] sessions[c].state = VersionVerified ->
           \E o \in Outcomes : handle_version_verified(c, f, o)
      [] sessions[c].state = Authenticated -> handle_authenticated(c, f)
      [] sessions[c].state = InGame -> handle_in_game(c, f)

\* C1: in every state, dispatching a frame whose opcode the transition table
\* does not list for that state leaves the session state unchanged and the
\* connection open: the task is back at the top of its packet loop.
C1_UnlistedIgnored ==
    [][\A c \in Conns :
         \/ sessions[c].pc # "loop"
         \/ client_frames' = client_frames
         \/ /\ sessions'[c].state = sessions[c].state
            /\ sessions'[c].pc = "loop"
         \/ \A f \in Unlisted[sessions[c].state] : ~Dispatch(c, f)]_vars

\* A frame has been dispatched and every connection is still open in Connected.
C1_Witness ==
    /\ client_frames < MaxFrames
    /\ \A c \in Conns : sessions[c].state = Connected /\ sessions[c].pc = "loop"

\* The restart-after-death frames.
RestartFrames == {f \in Frames : f.op = "C_RESTART"}

\* The edges of the connection state machine.
StateEdges ==
    {<<Connected, VersionVerified>>, <<VersionVerified, Authenticated>>,
     <<Authenticated, InGame>>, <<InGame, Authenticated>>}

\* C2: a session's state changes only along Connected -> VersionVerified ->
\* Authenticated -> InGame and the back-edge InGame -> Authenticated, and a
\* restart-after-death frame keeps the state InGame.
C2_AllowedTransitions ==
    [][\A c \in Conns :
         /\ \/ sessions'[c].state = sessions[c].state
            \/ <<sessions[c].state, sessions'[c].state>> \in StateEdges
         /\ \/ sessions'[c].state = InGame
            \/ \A f \in RestartFrames : ~handle_in_game(c, f)]_vars

\* A connection that went through every state and took the back-edge: it is
\* registered in the world and back in Authenticated, reading frames.
C2_Witness ==
    \E c \in Conns :
        /\ sessions[c].state = Authenticated
        /\ sessions[c].pc = "loop"
        /\ \E id \in DOMAIN world : world[id].packet_tx = c

\* C3: whenever the task of a connection that had logged in has ended,
\* cleanup_session has run (the task went through the deregistration, the
\* save and the set_offline call), and the registry holds no entry of the
\* connection.
C3_CleanupOnTermination ==
    \A c \in Conns :
        Terminated(c) =>
            /\ sessions[c].account_name # None => sessions[c].cleaned
            /\ \A id \in DOMAIN world : world[id].packet_tx # c

\* C4: no connection's queue holds a payload that the connection itself
\* broadcast.
C4_NoSelfDelivery ==
    \A c \in Conns :
        \A i \in 1..Len(queues[c]) : queues[c][i].from # c

\* The connections at a position where the mutex guard is alive.
Holders == {c \in Conns : sessions[c].pc \in LockHeld}

\* C5: at most one connection task is inside a critical section on the
\* registry, it is the holder of the mutex, and the registry changes only in
\* a step of that task; so between a task's update_position and its movement
\* broadcast no other task is in a critical section.
C5_MutualExclusion ==
    /\ [](/\ Cardinality(Holders) <= 1
          /\ \A c \in Holders : lock = c
          /\ (Holders = {} => lock = None))
    /\ [][world' # world => /\ lock # None
                            /\ sessions[lock].pc \in LockHeld
                            /\ \A c \in Conns \ {lock} : sessions'[c] = sessions[c]]_vars

\* A task is between its update_position and its movement broadcast while
\* another task waits for the mutex.
C5_Witness ==
    \E c, d \in Conns :
        /\ sessions[c].pc = "mv_cs2"
        /\ sessions[d].pc \in LockWait

\* The runtime polls every ready task, so a step inside a critical section
\* is taken; tokio's Mutex serves its waiters in FIFO order, so a task that
\* waits while the lock is free again and again obtains it.
SessionFairness ==
    \A c \in Conns :
        /\ SF_vars(lock_world(c))
        /\ WF_vars(select_register(c))
        /\ WF_vars(move_update(c))
        /\ WF_vars(move_broadcast(c))
        /\ WF_vars(chat_broadcast(c))
        /\ WF_vars(cleanup_deregister(c))

FairSessionSpec == Init /\ [][SessionNext]_vars /\ SessionFairness

\* C6: no task sends on its socket or calls persistence while it holds the
\* registry lock, and every task that requests the lock eventually holds it.
C6_NoIoUnderLock ==
    /\ [](~io_in_lock)
    /\ \A c \in Conns : (sessions[c].pc \in LockWait) ~> (lock = c)

\* A task has released the lock and is about to send the packets it copied
\* out under it: the other connection had entered the world next to it.
C6_Witness ==
    \E c \in Conns :
        /\ sessions[c].pc = "sel_send"
        /\ \E id \in sessions[c].nearby_packets : world[id].packet_tx # c
        /\ lock # c


\* The registry entries that belong to connections other than c.
EntriesOfOthers(w, c) == {id \in DOMAIN w : w[id].packet_tx # c}

\* C12: a length header that decode_length rejects ends the connection's
\* packet loop without dispatching a frame (the session state is as it was
\* and the task is in cleanup_session), and neither that step nor any later
\* step of the aborted connection changes another connection's session or
\* another connection's registry entry.
C12_BadHeaderAborts ==
    [][\A c \in Conns :
         /\ ReadBadHeader(c) =>
              /\ sessions'[c].pc \in {"cl_lock", "cl_offline"}
              /\ sessions'[c].state = sessions[c].state
              /\ world' = world
              /\ \A d \in Conns \ {c} : sessions'[d] = sessions[d]
         /\ (sessions[c].bad_header /\ sessions'[c] # sessions[c]) =>
              /\ \A d \in Conns \ {c} : sessions'[d] = sessions[d]
              /\ \A id \in EntriesOfOthers(world, c) :
                   id \in DOMAIN world' /\ world'[id] = world[id]]_vars

\* C13: a login whose loaded account is banned, online or has another
\* password is answered with a failure code and changes nothing else (the
\* state stays VersionVerified, the session records no account, the account
\* rows are as they were); and a session leaves VersionVerified for
\* Authenticated only in a login that passed the three checks, with the
\* account marked online and recorded on the session.
C13_LoginRejections ==
    [][\A c \in Conns :
         LET auth == sessions[c].auth
             bad == \/ auth.row.banned # 0
                    \/ auth.row.online # 0
                    \/ auth.password # auth.row.password
         IN /\ (verify_login(c) /\ bad) =>
                 /\ sessions'[c].state = VersionVerified
                 /\ sessions'[c].account_name = None
                 /\ accounts' = accounts
                 /\ \/ /\ sessions'[c].pc = "loop"
                       /\ sessions'[c].login_result \in {"ACCESS_FAILED", "ACCOUNT_IN_USE"}
                    \/ sessions'[c].pc = "returned"
            /\ (sessions[c].state = VersionVerified
                  /\ sessions'[c].state = Authenticated) =>
                 /\ verify_login(c)
                 /\ ~bad
                 /\ accounts'[auth.account].online = 1
                 /\ sessions'[c].account_name = auth.account]_vars

\* One connection has been refused an account that is in use and is still
\* open in VersionVerified; the other one holds the account.
C13_Witness ==
    \E c, d \in Conns :
        /\ sessions[c].state = VersionVerified
        /\ sessions[c].pc = "loop"
        /\ sessions[c].login_result = "ACCOUNT_IN_USE"
        /\ sessions[c].account_name = None
        /\ sessions[d].state = Authenticated

\* The login frames: the two wire shapes, with the login action.
LoginFrames == {f \in Frames : f.op \in {"C_BEANFUNLOGIN", "C_LOGINPACKET"} /\ f.login}

\* C14: a login during which persistence is unavailable (there is no
\* database handle, the account lookup fails, or the creation of an unknown
\* account fails) is answered with the access-failure code and leaves the
\* connection open in VersionVerified, reading the next frame.
C14_PersistenceUnavailable ==
    [][\A c \in Conns :
         (sessions[c].state = VersionVerified /\ client_frames' # client_frames) =>
            \A f \in LoginFrames, o \in Outcomes :
                (/\ o.sent
                 /\ \/ ~db
                    \/ ~o.load
                    \/ ~accounts[f.account].exists /\ ~o.write
                 /\ handle_version_verified(c, f, o))
                   => /\ sessions'[c].pc = "loop"
                      /\ sessions'[c].state = VersionVerified
                      /\ sessions'[c].login_result = "ACCESS_FAILED"]_vars

\* The move and the heading-change frames.
MoveFrames == {f \in Frames : f.op \in {"C_MOVECHAR", "C_CHANGEHEADING"}}

\* The connection's own registry entry is there.
HasOwnEntry(c) ==
    /\ sessions[c].char_objid \in DOMAIN world
    /\ world[sessions[c].char_objid].packet_tx = c

\* C21: a move frame and a heading-change frame received in InGame update
\* the cached position and heading, apply the same position and heading to
\* the connection's registry entry and leave the state InGame: between two
\* frames the registry entry of an in-game connection shows its cached
\* position and heading.
C21_MoveAndHeadingApplied ==
    /\ [](\A c \in Conns :
            (/\ sessions[c].state = InGame
             /\ sessions[c].pc = "loop"
             /\ HasOwnEntry(c))
               => LET s == sessions[c]
                      e == world[s.char_objid]
                  IN /\ e.x = s.char_x
                     /\ e.y = s.char_y
                     /\ e.heading = s.char_heading)
    /\ [][\A c \in Conns :
            (/\ sessions[c].state = InGame
             /\ client_frames' # client_frames
             /\ \E f \in MoveFrames : handle_in_game(c, f))
               => sessions'[c].state = InGame]_vars

\* Every collaborator call and every send succeeds.
AllOk == [load |-> TRUE, write |-> TRUE, sent |-> TRUE, list |-> TRUE]

\* C22: a change-character frame in InGame persists the cached position,
\* leaves the registry untouched (the connection's entry is neither removed
\* nor modified), resends the character list and puts the session in
\* Authenticated.
C22_ChangeCharKeepsEntry ==
    [][\A c \in Conns :
          (/\ sessions[c].state = InGame
           /\ sessions[c].pc = "loop"
           /\ client_frames' # client_frames
           /\ sessions'[c].state # InGame)
             => /\ world' = world
                /\ \A d \in Conns \ {c} : queues'[d] = queues[d]
                /\ change_char(c, sessions[c], AllOk)
                     => LET s == sessions[c]
                            row == characters'[s.char_name]
                        IN /\ row.exists
                           /\ row.x = s.char_x
                           /\ row.y = s.char_y
                           /\ row.map_id = s.char_map
                           /\ row.heading = s.char_heading
                           /\ sessions'[c] = [s EXCEPT !.state = Authenticated]
      ]_vars

\* C22 witness: a connection that moved east and then changed character is
\* in Authenticated, the row of its character holds the position it moved
\* to, and its registry entry is still there.
C22_Witness ==
    \E c \in Conns :
        /\ sessions[c].state = Authenticated
        /\ sessions[c].pc = "loop"
        /\ sessions[c].char_name = "k1"
        /\ sessions[c].char_x = 11
        /\ characters["k1"].x = 11
        /\ HasOwnEntry(c)
        /\ world[sessions[c].char_objid].x = 11

\* The registry without the entries that deliver to connection c.
WithoutEntriesOf(w, c) == [id \in EntriesOfOthers(w, c) |-> w[id]]

\* The places a nearby query is made from: where the stored characters are.
QueryPoints ==
    {<<characters[n].map_id, characters[n].x, characters[n].y>> :
        n \in {m \in CharNames : characters[m].exists}}

\* An occupant one could register: a free object id at a query point.
FreshOccupants ==
    {OnlinePlayer(id, "k3", p[2], p[3], p[1], 0, "c1") :
        id \in {1, 2, 3} \ DOMAIN world, p \in QueryPoints}

\* C23: registering an occupant and then deregistering it restores the
\* registry (every nearby query answers as before), whatever the registry
\* holds and wherever the occupant is; a connection that entered the world
\* and has terminated leaves every nearby query as it would be without it.
C23_EnterThenLeaveRestores ==
    /\ \A me \in FreshOccupants, p \in QueryPoints :
          get_nearby_players(remove_player(add_player(world, me),
                                           me.object_id),
                             p[1], p[2], p[3], 0)
            = get_nearby_players(world, p[1], p[2], p[3], 0)
    /\ \A c \in Conns :
          Terminated(c) =>
              \A p \in QueryPoints :
                  get_nearby_players(world, p[1], p[2], p[3], 0)
                    = get_nearby_players(WithoutEntriesOf(world, c),
                                         p[1], p[2], p[3], 0)

\* The registry entries whose delivery handle is connection c's packet_tx.
EntriesOf(c) == {id \in DOMAIN world : world[id].packet_tx = c}

\* C33: after a connection has terminated, the registry holds no occupant
\* whose delivery handle belongs to that connection, whatever state it
\* terminated in: also when it entered the world, went back to character
\* selection with change-character and then disconnected.
C33_NoEntryAfterTermination ==
    \A c \in Conns : Terminated(c) => EntriesOf(c) = {}

\* C34: the registry never holds two occupants for one connection, and
\* add_player is never called with an object id that is already registered,
\* over any sequence of character-select, change-character and
\* character-select again on one connection.  A task at sel_cs holds the
\* lock inside the C_LOGINTOSERVER block and its next step is add_player
\* with its char_objid.
C34_OneEntryPerConnection ==
    \A c \in Conns :
       /\ Cardinality(EntriesOf(c)) <= 1
       /\ sessions[c].pc = "sel_cs" => sessions[c].char_objid \notin DOMAIN world

\* C35: whenever a connection is InGame and between two messages, the x, y,
\* map and heading cached in its session equal those of the registry entry
\* for its object id: after every move, every heading-change and every
\* restart-after-death.
C35_CacheMatchesRegistry ==
    \A c \in Conns :
       LET s == sessions[c]
       IN (s.state = InGame /\ s.pc = "loop" /\ s.char_objid \in DOMAIN world)
            => <<s.char_x, s.char_y, s.char_map, s.char_heading>>
                 = <<world[s.char_objid].x, world[s.char_objid].y,
                     world[s.char_objid].map_id, world[s.char_objid].heading>>

\* The session is past the login: state Authenticated or InGame.
LoggedIn(s) == s.state \in {Authenticated, InGame}

\* C36: at no time are two live connections both authenticated (state
\* Authenticated or InGame) for the same account, under every interleaving
\* of their login handling: a connection that passes the already-online
\* check keeps every other connection from passing it for that account.
C36_OneLoginPerAccount ==
    \A c \in Conns : \A d \in Conns \ {c} :
       (/\ ~Terminated(c) /\ LoggedIn(sessions[c])
        /\ ~Terminated(d) /\ LoggedIn(sessions[d]))
          => sessions[c].account_name # sessions[d].account_name

\* C37: a session that is Authenticated or InGame has an account name and a
\* database handle, and one that is InGame also has a character name, so
\* the unwraps of send_char_list, character-select, change-character and
\* restart never meet a missing value, whatever opcodes were received.
C37_NoMissingValue ==
    \A c \in Conns :
       LET s == sessions[c]
       IN /\ LoggedIn(s) => (s.account_name # None /\ db)
          /\ s.state = InGame => s.char_name # None

\* A connection is back at the character list after a change-character:
\* send_char_list has unwrapped the handle and the account name again.
C37_Witness ==
    \E c \in Conns :
       /\ sessions[c].state = Authenticated
       /\ sessions[c].pc = "loop"
       /\ sessions[c].char_name # None
       /\ sessions[c].account_name # None
       /\ db

\* Connection c registers its occupant in this step: the add_player of the
\* character-select block.
Enters(c) == sessions[c].pc = "sel_cs" /\ sessions'[c].pc = "sel_send"

\* The entries of the live connection d that are on the map and within
\* visibility range of the place where c is entering.
SeenAtEntry(c, d) ==
    {e \in EntriesOf(d) :
        /\ ~Terminated(d)
        /\ world[e].map_id = sessions[c].char_map
        /\ Max2(Abs(world[e].x - sessions[c].char_x),
                Abs(world[e].y - sessions[c].char_y)) <= VisRange}

\* The appearance of connection c's occupant, as c broadcasts it on entry.
Appearance(c) == Payload("charpack", c, sessions[c].char_objid)

\* C39: of two connections that enter the world on one map within
\* visibility range of each other, each gets the other's appearance exactly
\* once, whatever the interleaving of their character-select handling: the
\* one that enters second has the first in the snapshot it will send to its
\* client and in no broadcast, and the first gets the second's appearance
\* as one broadcast on its queue and had it in no snapshot.
C39_AppearanceExactlyOnce ==
    [][\A c \in Conns : \A d \in Conns \ {c} :
          (Enters(c) /\ SeenAtEntry(c, d) # {})
             => /\ SeenAtEntry(c, d) \subseteq sessions'[c].nearby_packets
                /\ queues'[d] = Append(queues[d], Appearance(c))
                /\ queues'[c] = queues[c]
                /\ sessions[c].char_objid \notin sessions[d].nearby_packets]_vars

(***************************************************************************)
(* The two event sources of one connection (WireSpec, FairWireSpec)        *)
(***************************************************************************)

\* The select! picks among the ready arms at random, the network delivers
\* what it holds: a step that stays enabled is taken.
WireFairness ==
    /\ WF_vars(\E key \in Keys, written \in BOOLEAN :
                   wire_send_handshake(key, written))
    /\ WF_vars(net_deliver)
    /\ WF_vars(wire_read_packet)
    /\ WF_vars(\E written \in BOOLEAN : wire_recv_broadcast(written))

FairWireSpec == WorldOnlyInit /\ [][WireNext]_vars /\ WireFairness

IsPrefix(s, t) == Len(s) <= Len(t) /\ s = SubSeq(t, 1, Len(s))

WasDispatched(k) ==
    /\ Len(wire.client_sent) >= k
    /\ \E j \in 1..Len(wire.dispatched) :
           wire.dispatched[j] = wire.client_sent[k].data

\* The bytes of the frames in fs (records with the ciphertext ct), as they
\* travel on the socket.
RECURSIVE FrameBytes(_)
FrameBytes(fs) ==
    IF fs = << >> THEN << >>
    ELSE encode_frame(Head(fs).ct) \o FrameBytes(Tail(fs))

\* The payloads the client sent, in order.
SentPayloads == [k \in 1..Len(wire.client_sent) |-> wire.client_sent[k].data]

\* C38: when a broadcast becomes ready while a client frame is only partly
\* read, no byte already read is lost: on a connection that is open the
\* frames received, the bytes the pending read holds, the bytes on the
\* socket and those on the network make up what the client sent, and the
\* frames dispatched are the frames the client sent, with their boundaries.
C38_NoByteLost ==
    wire.pc = "select"
        => /\ FrameBytes(wire.received) \o wire.rd \o wire.sock \o wire.net
                 = FrameBytes(wire.client_sent)
           /\ IsPrefix(wire.dispatched, SentPayloads)

\* C15: on a connection that stays alive every payload enqueued on its
\* packet_rx is eventually written to the socket, in the order enqueued and
\* exactly once, and every complete frame its client sent is eventually
\* dispatched, whatever the interleaving of the two sources.
C15_BothSourcesServed ==
    /\ \A i \in 1..MaxBroadcasts :
          (Len(wire.enqueued) >= i)
              ~> (wire.pc = "closed" \/ Len(wire.forwarded) >= i)
    /\ [](IsPrefix(wire.forwarded, wire.enqueued))
    /\ \A k \in 1..MaxClientFrames :
          (Len(wire.client_sent) >= k)
              ~> (wire.pc = "closed" \/ WasDispatched(k))

(***************************************************************************)
(* Handshake and cipher of one connection (WireSpec)                       *)
(***************************************************************************)

\* The cipher state a peer holding `key` has after n calls in one direction.
CipherAfter(key, n) == [key |-> key, enc |-> n, dec |-> n]

\* C16: the handshake frame (init opcode, key, magic blob) is the first
\* frame sent and the only one sent unencrypted; the cipher is initialised
\* from that key exactly once, before any client frame is read; every later
\* frame is encrypted on send and decrypted on receive.
C16_HandshakeThenCipher ==
    /\ wire.cipher_inits <= 1
    /\ wire.cipher = {} =>
          /\ wire.cipher_inits = 0
          /\ wire.out = << >>
          /\ wire.received = << >> /\ wire.rd = << >>
    /\ wire.cipher # {} =>
          /\ wire.cipher_inits = 1
          /\ wire.out # << >>
          /\ wire.out[1] = encode_frame(HandshakePayload(TheCipher(wire).key))
          /\ \A i \in 2..Len(wire.out) :
                /\ i - 1 <= Len(wire.encrypted)
                /\ wire.out[i] =
                      encode_frame(encrypt(CipherAfter(TheCipher(wire).key,
                                                       i - 2),
                                           wire.encrypted[i - 1].data))
                /\ wire.out[i] # encode_frame(wire.encrypted[i - 1].data)
          /\ \A i \in 1..Len(wire.received) :
                wire.received[i].data =
                    decrypt(CipherAfter(TheCipher(wire).key, i - 1),
                            wire.received[i].ct)

\* A reply and a broadcast have followed the handshake, a frame was read.
C16_Witness ==
    /\ Len(wire.out) >= 3
    /\ wire.received # << >>
    /\ wire.dispatched # << >>
    /\ wire.forwarded # << >>

(***************************************************************************)
(* Order of the cipher calls of one connection (WireSpec)                  *)
(***************************************************************************)

\* C17: outgoing frames reach the socket in the order in which they were
\* encrypted, each encrypted once, and the incoming frames are decrypted
\* once each in the order they arrived: what the server decrypts is, call
\* by call, what the client encrypted.
C17_CipherOrder ==
    /\ Len(wire.out) <= Len(wire.encrypted) + 1
    /\ wire.pc = "select" => Len(wire.out) = Len(wire.encrypted) + 1
    /\ \A i \in 2..Len(wire.out) :
          wire.out[i] = encode_frame(wire.encrypted[i - 1].ct)
    /\ Len(wire.received) <= Len(wire.client_sent)
    /\ \A i \in 1..Len(wire.received) :
          wire.received[i].ct = wire.client_sent[i].ct

(***************************************************************************)
(* Character creation next to entity spawning (IdSpec): connection c1 has  *)
(* logged in to account a1 and sends its next frames while the tick engine *)
(* spawns entities.                                                        *)
(***************************************************************************)
IdFrames == 2         \* frames c1 sends after its login

IdInit ==
    /\ WorldInit
    /\ WireInit
    /\ SiegeInit
    /\ sessions = [c \in Conns |->
                     IF c = "c1"
                     THEN [NewSession EXCEPT !.pc = "loop",
                                             !.cipher = TRUE,
                                             !.state = Authenticated,
                                             !.account_name = "a1",
                                             !.login_result = "LOGIN_OK"]
                     ELSE NewSession]
    /\ queues = [c \in Conns |-> << >>]
    /\ world = << >>
    /\ lock = None
    /\ accounts = [a \in Accounts |->
                     CASE a = "a1" -> AccountRow("p", 0, 1)
                       [] a = "ab" -> AccountRow("p", 1, 0)
                       [] OTHER -> NoRow]
    /\ characters = [n \in CharNames |->
                     CASE n = "k1" -> CharacterRow("a1", 1, 10, 5, 4, 0)
                       [] n = "k2" -> CharacterRow("a1", 2, 11, 5, 4, 0)
                       [] OTHER -> NoRow]
    /\ db = TRUE
    /\ io_in_lock = FALSE
    /\ client_frames = IdFrames

IdNext ==
    \/ \E c \in Conns, f \in Frames : handle_authenticated(c, f)
    \/ \E t \in TemplateArgs, xy \in SpawnPoints :
          spawn_npc(t, xy[1], xy[2], SpawnMap)

IdSpec == IdInit /\ [][IdNext]_vars

\* The ids the tick engine has allocated for entities.
EngineIds == BaseObjectId..(next_object_id - 1)

\* C20: player object ids and entity object ids are disjoint: no character's
\* object id is an id the tick engine has allocated for an entity, and no
\* two characters have the same object id.
C20_DisjointIds ==
    /\ \A n \in CharNames :
          characters[n].exists => characters[n].objid \notin EngineIds
    /\ \A n, m \in CharNames :
          (n # m /\ characters[n].exists /\ characters[m].exists)
              => characters[n].objid # characters[m].objid

(***************************************************************************)
(* Claims about the siege units (CatapultSpec, GuardSpec).                 *)
(***************************************************************************)
\* A step taken by try_fire that reported something new.
TryFireCalled == last_call'.op = "try_fire" /\ last_call' # last_call

Manned(cat) == ~cat.destroyed /\ cat.operator_id # 0

\* C26 as stated: after a catapult fires, every try_fire reports Reloading
\* until tick has been called exactly 50 times since the shot, and the
\* first try_fire with a bomb after those 50 ticks fires again; an attempt
\* that does not fire leaves the reload countdown and every other field
\* unchanged.
C26_ReloadingUntilFiftyTicks ==
    [][ TryFireCalled =>
          /\ elapsed.shot \in 0..(CATAPULT_RELOAD_TICKS - 1)
                => last_call'.ret.kind = "Reloading"
          /\ (elapsed.shot >= CATAPULT_RELOAD_TICKS /\ last_call'.has_bomb)
                => last_call'.ret.kind = "Fire"
          /\ last_call'.ret.kind # "Fire" => catapult' = catapult
      ]_vars

\* C26 amended: after a catapult fires and as long as it has not been
\* repaired since, no try_fire fires until tick has been called exactly 50
\* times since the shot, and every try_fire made in that time while the
\* catapult has an operator and is not destroyed reports Reloading with the
\* ticks that are left; the first try_fire with a bomb after those 50 ticks
\* made while it has an operator and is not destroyed fires again; an
\* attempt that does not fire leaves the reload countdown and every other
\* field unchanged.
C26_ReloadingUnlessRepaired ==
    [][ TryFireCalled =>
          /\ (elapsed.shot \in 0..(CATAPULT_RELOAD_TICKS - 1) /\ ~elapsed.repaired)
                => /\ last_call'.ret.kind # "Fire"
                   /\ Manned(catapult)
                        => last_call'.ret
                             = [kind |-> "Reloading",
                                ticks_left |-> CATAPULT_RELOAD_TICKS - elapsed.shot]
          /\ (elapsed.shot >= CATAPULT_RELOAD_TICKS /\ last_call'.has_bomb
              /\ Manned(catapult))
                => /\ last_call'.ret.kind = "Fire"
                   /\ catapult' = [catapult EXCEPT
                                     !.reload_remaining = CATAPULT_RELOAD_TICKS]
          /\ last_call'.ret.kind # "Fire" => catapult' = catapult
      ]_vars

\* C26 witness: 49 ticks after a shot the catapult, still manned and never
\* repaired, has reported Reloading with one tick left.
C26_Witness ==
    /\ last_call.op = "try_fire"
    /\ last_call.ret = [kind |-> "Reloading", ticks_left |-> 1]
    /\ elapsed.shot = CATAPULT_RELOAD_TICKS - 1
    /\ ~elapsed.repaired
    /\ Manned(catapult)

\* C27: in every state reachable through mount, dismount, try_fire, tick,
\* receive_damage and repair, a catapult that has an operator is not
\* destroyed, and it got that operator through a royal's mount while it was
\* unoccupied; once damage has brought its hit points to zero it is
\* destroyed with no operator, and it stays so, refusing every mount and
\* every try_fire, until repair, which restores full hit points and clears
\* destroyed, operator and reload.
C27_OperatorAndDestruction ==
    /\ [](/\ catapult.operator_id # 0 => ~catapult.destroyed
          /\ catapult.cur_hp <= 0 => (catapult.destroyed /\ catapult.operator_id = 0))
    /\ [][ /\ (catapult'.operator_id # 0
               /\ catapult'.operator_id # catapult.operator_id)
                 => /\ last_call' = [op |-> "mount",
                                     player_id |-> catapult'.operator_id,
                                     is_royal |-> TRUE, ret |-> TRUE]
                    /\ catapult.operator_id = 0
                    /\ ~catapult.destroyed
           /\ (last_call'.op = "receive_damage"
               /\ catapult.cur_hp - last_call'.damage <= 0)
                 => /\ last_call'.ret = TRUE
                    /\ catapult'.cur_hp = 0
                    /\ catapult'.destroyed
                    /\ catapult'.operator_id = 0
           /\ (catapult.destroyed /\ last_call'.op # "repair")
                 => /\ catapult'.destroyed
                    /\ catapult'.operator_id = 0
                    /\ last_call'.op = "mount" => last_call'.ret = FALSE
                    /\ last_call'.op = "try_fire"
                         => last_call'.ret = [kind |-> "Destroyed"]
           /\ last_call'.op = "repair"
                 => catapult' = [catapult EXCEPT !.cur_hp = catapult.max_hp,
                                                 !.destroyed = FALSE,
                                                 !.operator_id = 0,
                                                 !.reload_remaining = 0]
         ]_vars

\* C27 witness: a catapult that had fired, and so had an operator, was
\* destroyed while reloading and has refused a royal's mount.
C27_Witness ==
    /\ last_call.op = "mount"
    /\ last_call.is_royal
    /\ last_call.ret = FALSE
    /\ catapult.destroyed
    /\ catapult.cur_hp = 0
    /\ catapult.operator_id = 0
    /\ catapult.reload_remaining > 0
    /\ elapsed.shot >= 0
    /\ ~elapsed.repaired

\* A step taken by one of the guard's methods.
GuardMethodCalled == last_call'.op \in {"guard_tick", "try_attack", "guard_receive_damage"}

\* C28: a guard's try_attack returns 0 and changes nothing when the guard
\* is dead, has no target, or is cooling down; otherwise it returns a damage
\* within [damage_min, damage_max] and sets the attack cooldown to 10, so
\* that two non-zero attacks are at least 10 tick calls apart; a guard whose
\* hit points reached zero is dead with no target, never comes back to
\* life, and is given no target by any of its methods.
C28_GuardAttacks ==
    /\ [](guard.cur_hp <= 0 => ~guard.is_alive)
    /\ [][ /\ (last_call'.op = "try_attack" /\ last_call' # last_call)
                 => IF ~guard.is_alive \/ guard.target_id = 0 \/ guard.atk_cooldown > 0
                    THEN /\ last_call'.ret = 0
                         /\ guard' = guard
                    ELSE /\ last_call'.ret \in guard.damage_min..guard.damage_max
                         /\ last_call'.ret # 0
                         /\ guard' = [guard EXCEPT
                                        !.atk_cooldown = ATTACK_COOLDOWN_TICKS]
                         /\ elapsed.attack = -1
                              \/ elapsed.attack >= ATTACK_COOLDOWN_TICKS
           /\ (last_call'.op = "guard_receive_damage" /\ guard.is_alive
               /\ guard.cur_hp - last_call'.damage <= 0)
                 => /\ ~guard'.is_alive
                    /\ guard'.target_id = 0
                    /\ guard'.cur_hp = 0
           /\ ~guard.is_alive
                 => /\ ~guard'.is_alive
                    /\ guard'.cur_hp = guard.cur_hp
                    /\ GuardMethodCalled => guard'.target_id = guard.target_id
         ]_vars

\* C28 witness: nine ticks after a non-zero attack the guard, alive and
\* with a target, is still cooling down and its try_attack has returned 0.
C28_Witness ==
    /\ last_call = [op |-> "try_attack", ret |-> 0]
    /\ guard.is_alive
    /\ guard.target_id # 0
    /\ guard.atk_cooldown = 1
    /\ elapsed.attack = ATTACK_COOLDOWN_TICKS - 1

(***************************************************************************)
(* Calls of the pure functions (CallSpec): last_call records the arguments *)
(* and the result of each call.                                            *)
(***************************************************************************)
MaxDelta == 5         \* |dx|, |dy| of a direction_from_delta call

Deltas == (0 - MaxDelta)..MaxDelta

\* A call direction_from_delta(dx, dy).
call_direction_from_delta(dx, dy) ==
    /\ last_call' = [op |-> "direction_from_delta", dx |-> dx, dy |-> dy,
                     ret |-> direction_from_delta(dx, dy)]
    /\ UNCHANGED <<npcs, grid, player_positions, next_object_id, tick_count>>
    /\ UNCHANGED <<svars, xvars>>

MaxPayload == 8       \* the longest payload of a send_packet call

PayloadBytes == {0, 9}

Payloads == UNION {[1..n -> PayloadBytes] : n \in 0..MaxPayload}

\* A call send_packet(payload): the buffer it hands to the cipher.
call_send_packet(payload) ==
    /\ last_call' = [op |-> "send_packet", payload |-> payload,
                     data |-> PadBuffer(payload)]
    /\ UNCHANGED <<npcs, grid, player_positions, next_object_id, tick_count>>
    /\ UNCHANGED <<svars, xvars>>

CallNext ==
    \/ \E dx \in Deltas, dy \in Deltas : call_direction_from_delta(dx, dy)
    \/ \E payload \in Payloads : call_send_packet(payload)

CallSpec == WorldOnlyInit /\ [][CallNext]_vars

Sign(n) == IF n < 0 THEN -1 ELSE IF n > 0 THEN 1 ELSE 0

\* The direction table: (dx, dy) in {-1,0,1}^2, not both zero, to heading.
DirectionTable(dx, dy) ==
    CASE dx = 0 /\ dy = 1 -> 0
      [] dx = -1 /\ dy = 1 -> 1
      [] dx = -1 /\ dy = 0 -> 2
      [] dx = -1 /\ dy = -1 -> 3
      [] dx = 0 /\ dy = -1 -> 4
      [] dx = 1 /\ dy = -1 -> 5
      [] dx = 1 /\ dy = 0 -> 6
      [] dx = 1 /\ dy = 1 -> 7

UnitDeltas == {p \in {-1, 0, 1} \X {-1, 0, 1} : p # <<0, 0>>}

\* C11: direction_from_delta gives the 8 non-zero unit deltas their 8
\* distinct table headings, gives (0,0) heading 0, and gives every other
\* (dx, dy) the heading of (sign dx, sign dy); the result is in 0..7.
C11_DirectionFromDelta ==
    /\ \A p, q \in UnitDeltas :
         p # q => direction_from_delta(p[1], p[2]) # direction_from_delta(q[1], q[2])
    /\ last_call.op = "direction_from_delta" =>
         /\ last_call.ret \in 0..7
         /\ last_call.ret =
              IF last_call.dx = 0 /\ last_call.dy = 0 THEN 0
              ELSE DirectionTable(Sign(last_call.dx), Sign(last_call.dy))

\* A call with a delta longer than one tile on both axes.
C11_Witness ==
    /\ last_call.op = "direction_from_delta"
    /\ last_call.dx < -1
    /\ last_call.dy > 1
    /\ last_call.ret = 1

\* C18: the buffer send_packet hands to the cipher has the smallest multiple
\* of 4 that is >= n as its length, the payload as its first n bytes and
\* zeros after them; a payload whose length is a multiple of 4 (0 included)
\* gets no padding.
C18_ZeroPadding ==
    last_call.op = "send_packet" =>
        LET n == Len(last_call.payload)
            data == last_call.data
        IN /\ Len(data) % 4 = 0
           /\ Len(data) >= n
           /\ Len(data) < n + 4
           /\ \A i \in 1..n : data[i] = last_call.payload[i]
           /\ \A i \in (n + 1)..Len(data) : data[i] = 0
           /\ n % 4 = 0 => data = last_call.payload

\* A payload of 5 bytes, the last one not zero, padded to 8.
C18_Witness ==
    /\ last_call.op = "send_packet"
    /\ Len(last_call.payload) = 5
    /\ last_call.payload[5] = 9
    /\ Len(last_call.data) = 8

\* The displacement from an entity's position to its home point.
HomeDelta(npc) == <<npc.home_x - npc.pos.x, npc.home_y - npc.pos.y>>

\* C32: whenever a new random-walk heading is to be drawn (the remaining
\* distance is zero) for an entity whose home point is not (0, 0) and is
\* not its position, the heading toward home is a possible outcome of the
\* override; and when the override is taken, the heading is the direction
\* table's entry for the signs of (home - position), so that the one-tile
\* step of that tick brings the entity one tile nearer to home in Chebyshev
\* distance.
C32_HomewardOverride ==
    \A id \in DOMAIN npcs :
       LET npc == npcs[id]
           d == HomeDelta(npc)
           toward == direction_from_delta(d[1], d[2])
           home == [x |-> npc.home_x, y |-> npc.home_y]
       IN (/\ npc.random_walk_distance = 0
           /\ <<npc.home_x, npc.home_y>> # <<0, 0>>
           /\ d # <<0, 0>>)
            => /\ \E r \in Rolls :
                    /\ r.direction # toward
                    /\ RandomWalkChoice(npc, r).random_walk_direction = toward
               /\ \A r \in Rolls :
                    LET c == RandomWalkChoice(npc, r)
                    IN c.random_walk_direction # r.direction
                         => /\ c.random_walk_direction = toward
                            /\ heading_delta(toward) = <<Sign(d[1]), Sign(d[2])>>
                            /\ tile_distance(ExecuteMove(c).pos, home)
                                 = tile_distance(npc.pos, home) - 1

====
